---- MODULE Spec2Model ----
(***************************************************************************)
(* Message conversion of cherry-studio-app: Cherry Studio messages are     *)
(* compiled into AI SDK model messages.  The repository holds three        *)
(* revisions of the converter:                                             *)
(*   - src/src/aiCore/prepareParams/messageConverter.ts: every tool block  *)
(*     yields a tool-call and, when it has content, a tool-result;         *)
(*   - src/unnamed/part_001: every tool block yields at most one part and  *)
(*     ids of blocks without toolId come from a module-level cache         *)
(*     (definitions that collide with the first carry the suffix _cached); *)
(*   - src/unnamed/part_002: tool history is replayed as separate          *)
(*     messages.                                                           *)
(***************************************************************************)
EXTENDS Integers, Sequences, FiniteSets, TLC

(***************************************************************************)
(* Bounds of the model.                                                    *)
(***************************************************************************)
\* longest list of tool blocks of one message
MaxToolBlocks == 2
\* longest message list handed to convertMessagesToSdkMessages
MaxMessages == 2
\* number of top-level convertMessagesToSdkMessages calls (they may overlap)
NumCalls == 2
\* Date.now() returns a value in 1..MaxNow
MaxNow == 1
\* longest list of image blocks of one message
MaxImageBlocks == 2
\* longest list of file blocks of one message
MaxFileBlocks == 2
\* longest conversation handed to convertMessagesToSdkMessages run alone
MaxConversation == 3

\* the most thinking blocks of a message of SpecReasoning
MaxThinkingBlocks == 2

\* the most getClient calls on one instance of the service
MaxGetClientCalls == 3

\* the most chunks that a completion streams
MaxStreamChunks == 2

(***************************************************************************)
(* JavaScript values.  t is the typeof tag, s the text of a string, o the  *)
(* entries of an object in insertion order; an entry is [k, q, v]: key,    *)
(* whether the value is a string (quoted by JSON.stringify), and the       *)
(* value's text.                                                           *)
(***************************************************************************)
Undefined == [t |-> "undefined", s |-> "", o |-> <<>>]

Null == [t |-> "null", s |-> "", o |-> <<>>]

Str(x) == [t |-> "string", s |-> x, o |-> <<>>]

Obj(entries) == [t |-> "object", s |-> "", o |-> entries]

\* JavaScript truthiness: undefined, null and "" are falsy, objects are truthy
Truthy(v) == (v.t = "string" /\ v.s # "") \/ v.t = "object"

\* v === undefined || v === null
IsNullish(v) == v.t \in {"undefined", "null"}

\* typeof v === 'string' (v may also be a tagged output record)
IsString(v) == "t" \in DOMAIN v /\ v.t = "string"

RECURSIVE JoinEntries(_, _)
JoinEntries(entries, i) ==
  IF i > Len(entries) THEN ""
  ELSE LET e == entries[i]
           val == IF e.q THEN "\"" \o e.v \o "\"" ELSE e.v
       IN (IF i > 1 THEN "," ELSE "") \o "\"" \o e.k \o "\":" \o val
            \o JoinEntries(entries, i + 1)

\* JSON.stringify of an object: keys in insertion order, no white space
JSONstringify(v) == "{" \o JoinEntries(v.o, 1) \o "}"

\* Object.keys(v).length
ObjectKeysLength(v) == Len(v.o)

(***************************************************************************)
(* Inputs: tool blocks and messages.  A message is given by what the block *)
(* extractors return for it.                                               *)
(***************************************************************************)
ToolIds == {Undefined, Str(""), Str("call_abc123")}

ToolNames == {Undefined, Str("my_tool")}

ArgumentValues ==
  {Undefined, Obj(<<>>), Obj(<<[k |-> "query", q |-> TRUE, v |-> "search term"]>>)}

ContentValues ==
  {Undefined, Null, Str("result"),
   Obj(<<[k |-> "data", q |-> TRUE, v |-> "value"],
         [k |-> "number", q |-> FALSE, v |-> "42"]>>)}

BlockId(i) == "tool-" \o ToString(i)

ToolBlock(id, toolId, toolName, arguments, content) ==
  [id |-> id, toolId |-> toolId, toolName |-> toolName,
   arguments |-> arguments, content |-> content]

\* the fields of a tool block other than its id
ToolBlockShapes ==
  [toolId : ToolIds, toolName : ToolNames,
   arguments : ArgumentValues, content : ContentValues]

\* lists of at most MaxToolBlocks blocks; the i-th block of a message is tool-i
ToolBlockLists ==
  UNION {{[i \in 1..n |->
             ToolBlock(BlockId(i), f[i].toolId, f[i].toolName,
                       f[i].arguments, f[i].content)] :
            f \in [1..n -> ToolBlockShapes]} : n \in 0..MaxToolBlocks}

MainTexts == {"", "Hello"}

ThinkingLists == {<<>>, <<"because X">>}

ToolRoles == {"assistant", "tool"}

Message(role, content, thinking, tools, images, files) ==
  [role |-> role, content |-> content, thinking |-> thinking, tools |-> tools,
   images |-> images, files |-> files]

\* assistant and tool messages without image and file blocks
Messages ==
  {Message(r, c, th, tb, <<>>, <<>>) :
     r \in ToolRoles, c \in MainTexts, th \in ThinkingLists, tb \in ToolBlockLists}

getMainTextContent(message) == message.content

findThinkingBlocks(message) == message.thinking

findToolBlocks(message) == message.tools

findImageBlocks(message) == message.images

findFileBlocks(message) == message.files

(***************************************************************************)
(* Image blocks, file blocks and the model descriptor.  A URL is held by   *)
(* its pieces: whether it starts with data:, the text between data: and    *)
(* the first semicolon, whether ;base64, follows, and the rest.  The file  *)
(* of an image block is a path and whether reading it succeeds.  A file    *)
(* block carries what the two converters of fileProcessor return for it.   *)
(***************************************************************************)
Url(data, mime, base64, payload) ==
  [data |-> data, mime |-> mime, base64 |-> base64, payload |-> payload]

NoUrl == Url(FALSE, "", FALSE, "")

UrlText(u) ==
  IF u.data
  THEN "data:" \o u.mime \o (IF u.base64 THEN ";base64," ELSE ",") \o u.payload
  ELSE u.payload

ImageFile(path, type, readable) ==
  [path |-> path, type |-> type, readable |-> readable]

NoImageFile == ImageFile("", "", FALSE)

ImageBlock(id, file, url) == [id |-> id, file |-> file, url |-> url]

\* what an image block holds, other than its id
ImageBlockShapes ==
  {[file |-> ImageFile("/images/a.jpg", "image/jpeg", TRUE), url |-> NoUrl],
   [file |-> ImageFile("/images/gone.jpg", "image/jpeg", FALSE), url |-> NoUrl],
   [file |-> NoImageFile, url |-> Url(TRUE, "image/jpeg", TRUE, "QUJD")],
   [file |-> NoImageFile, url |-> Url(TRUE, "", TRUE, "QUJD")],
   [file |-> NoImageFile, url |-> Url(TRUE, "image/jpeg", FALSE, "QUJD")],
   [file |-> NoImageFile, url |-> Url(FALSE, "", FALSE, "https://example.com/a.png")],
   [file |-> NoImageFile, url |-> NoUrl]}

ImageBlockId(i) == "image-" \o ToString(i)

ImageBlockLists ==
  UNION {{[i \in 1..n |-> ImageBlock(ImageBlockId(i), f[i].file, f[i].url)] :
            f \in [1..n -> ImageBlockShapes]} : n \in 0..MaxImageBlocks}

\* the data of a file part: a string with or without the prefix of a handle
FileData(prefix, rest) == [prefix |-> prefix, rest |-> rest]

\* native: what convertFileBlockToFilePart returns (none: null); text: what
\* convertFileBlockToTextPart returns ("": null)
FileBlock(id, native, text) == [id |-> id, native |-> native, text |-> text]

NativeOutcomes == {"none", "inline", "handle"}

ExtractedTexts == {"", "file text"}

FileBlockId(i) == "file-" \o ToString(i)

FileBlockLists ==
  UNION {{[i \in 1..n |-> FileBlock(FileBlockId(i), f[i].native, f[i].text)] :
            f \in [1..n -> [native : NativeOutcomes, text : ExtractedTexts]]} :
           n \in 0..MaxFileBlocks}

Model(vision, enhancement) ==
  [id |-> "model", vision |-> vision, enhancement |-> enhancement]

Models == {Model(v, e) : v \in BOOLEAN, e \in BOOLEAN}

\* @/config/models
isVisionModel(model) == model.vision

isImageEnhancementModel(model) == model.enhancement

(***************************************************************************)
(* Request parts.  blockId is not a field of the emitted part: it records  *)
(* the tool block a part was made from.                                    *)
(***************************************************************************)
TextPart(text) == [type |-> "text", text |-> text]

ReasoningPart(text) == [type |-> "reasoning", text |-> text]

ToolCallPart(toolCallId, toolName, input, blockId) ==
  [type |-> "tool-call", toolCallId |-> toolCallId, toolName |-> toolName,
   input |-> input, blockId |-> blockId]

ToolResultPart(toolCallId, toolName, output, blockId) ==
  [type |-> "tool-result", toolCallId |-> toolCallId, toolName |-> toolName,
   output |-> output, blockId |-> blockId]

ModelMessage(role, content) == [role |-> role, content |-> content]

\* the text part pushed without the test if (content)
TextParts_unconditional(content) == <<TextPart(content)>>

\* if (content) parts.push({ type: 'text', text: content })
TextParts(content) == IF content # "" THEN <<TextPart(content)>> ELSE <<>>

\* for (const thinkingBlock of thinkingBlocks) parts.push({ type: 'reasoning', ... })
ReasoningParts(thinkingBlocks) ==
  [i \in 1..Len(thinkingBlocks) |-> ReasoningPart(thinkingBlocks[i])]

\* a message whose content is a string instead of a list of parts
StringMessage(role, text) == [role |-> role, text |-> text]

\* typeof message.content === 'string'
HasStringContent(message) == "text" \in DOMAIN message

\* an array of messages or parts, as a value that can be told from a message
Array(elements) == [array |-> elements]

\* Array.isArray(v)
IsArray(v) == "array" \in DOMAIN v

\* the outcome of a conversion that ends with an exception
Threw(error) == [threw |-> error]

IsThrow(v) == "threw" \in DOMAIN v

ImagePart(image, mediaType, blockId) ==
  [type |-> "image", image |-> image, mediaType |-> mediaType, blockId |-> blockId]

FilePart(data, blockId) == [type |-> "file", data |-> data, blockId |-> blockId]

\* the text part extracted from a file block
FileTextPart(text, blockId) == [type |-> "text", text |-> text, blockId |-> blockId]

(***************************************************************************)
(* The image and file materializers and the user path, which the three     *)
(* revisions share word for word.                                          *)
(***************************************************************************)
RECURSIVE ImagePartsFrom(_, _, _)
\* the loop of convertImageBlockToImagePart, from block i on: an unreadable file
\* is skipped (caught), a data: URL that is not ;base64, with a payload makes
\* match(...)![1] throw a TypeError
ImagePartsFrom(imageBlocks, i, parts) ==
  IF i > Len(imageBlocks) THEN Array(parts)
  ELSE LET imageBlock == imageBlocks[i]
           url == imageBlock.url
       IN IF imageBlock.file # NoImageFile
          THEN IF imageBlock.file.readable
               THEN ImagePartsFrom(imageBlocks, i + 1,
                      Append(parts, ImagePart(Str("base64:" \o imageBlock.file.path),
                                              Str(imageBlock.file.type), imageBlock.id)))
               ELSE ImagePartsFrom(imageBlocks, i + 1, parts)
          ELSE IF UrlText(url) # ""
          THEN IF url.data
               THEN IF url.base64 /\ url.payload # ""
                    THEN ImagePartsFrom(imageBlocks, i + 1,
                           Append(parts, ImagePart(Str(url.payload),
                                                   IF url.mime # "" THEN Str(url.mime)
                                                   ELSE Str("image/png"),
                                                   imageBlock.id)))
                    ELSE Threw("TypeError")
               ELSE ImagePartsFrom(imageBlocks, i + 1,
                      Append(parts, ImagePart(Str(UrlText(url)), Undefined, imageBlock.id)))
          ELSE ImagePartsFrom(imageBlocks, i + 1, parts)

convertImageBlockToImagePart(imageBlocks) == ImagePartsFrom(imageBlocks, 1, <<>>)

\* fileProcessor: the native file part of a block, or null
convertFileBlockToFilePart(fileBlock, model) ==
  IF fileBlock.native = "inline" THEN FilePart(FileData("", "JVBERi0x"), fileBlock.id)
  ELSE IF fileBlock.native = "handle"
  THEN FilePart(FileData("fileid://", fileBlock.id), fileBlock.id)
  ELSE Null

\* fileProcessor: the extracted text of a block, or null
convertFileBlockToTextPart(fileBlock) ==
  IF fileBlock.text # "" THEN FileTextPart(fileBlock.text, fileBlock.id) ELSE Null

\* typeof data === 'string' && data.startsWith('fileid://')
IsHandle(data) == data.prefix = "fileid://"

RECURSIVE UserFilePartsFrom_noSplit(_, _, _, _)
\* UserFilePartsFrom without the test for a handle: every native part is pushed
UserFilePartsFrom_noSplit(fileBlocks, i, parts, model) ==
  IF i > Len(fileBlocks) THEN ModelMessage("user", parts)
  ELSE LET fileBlock == fileBlocks[i]
           filePart == IF model # Undefined
                       THEN convertFileBlockToFilePart(fileBlock, model) ELSE Null
           textPart == convertFileBlockToTextPart(fileBlock)
       IN IF filePart # Null
          THEN UserFilePartsFrom_noSplit(fileBlocks, i + 1, Append(parts, filePart),
                                         model)
          ELSE IF textPart # Null
          THEN UserFilePartsFrom_noSplit(fileBlocks, i + 1, Append(parts, textPart),
                                         model)
          ELSE UserFilePartsFrom_noSplit(fileBlocks, i + 1, parts, model)

\* UserFilePartsFrom with the handle kept for the system message and the loop
\* carried on over the remaining blocks
UserFilePartsFrom_carryOn(fileBlocks, i, parts, model) ==
  LET handles == {k \in i..Len(fileBlocks) :
                    /\ model # Undefined
                    /\ convertFileBlockToFilePart(fileBlocks[k], model) # Null
                    /\ IsHandle(convertFileBlockToFilePart(fileBlocks[k], model).data)}
  IN IF handles = {} THEN UserFilePartsFrom_noSplit(fileBlocks, i, parts, model)
     ELSE LET k == CHOOSE h \in handles : \A g \in handles : h <= g
              data == convertFileBlockToFilePart(fileBlocks[k], model).data
              others == SubSeq(fileBlocks, i, k - 1)
                          \o SubSeq(fileBlocks, k + 1, Len(fileBlocks))
              user == UserFilePartsFrom_noSplit(others, 1, parts, model)
          IN Array(<<StringMessage("system", data.prefix \o data.rest),
                     IF Len(user.content) > 0 THEN user
                     ELSE StringMessage("user", "")>>)

RECURSIVE UserFilePartsFrom(_, _, _, _)
\* the loop over fileBlocks of convertMessageToUserModelMessage, from block i on,
\* and its return
UserFilePartsFrom(fileBlocks, i, parts, model) ==
  IF i > Len(fileBlocks) THEN ModelMessage("user", parts)
  ELSE LET fileBlock == fileBlocks[i]
           filePart == IF model # Undefined
                       THEN convertFileBlockToFilePart(fileBlock, model) ELSE Null
           textPart == convertFileBlockToTextPart(fileBlock)
       IN IF filePart # Null
          THEN IF IsHandle(filePart.data)
               THEN Array(<<StringMessage("system",
                                          filePart.data.prefix \o filePart.data.rest),
                            IF Len(parts) > 0 THEN ModelMessage("user", parts)
                            ELSE StringMessage("user", "")>>)
               ELSE UserFilePartsFrom(fileBlocks, i + 1, Append(parts, filePart), model)
          ELSE IF textPart # Null
          THEN UserFilePartsFrom(fileBlocks, i + 1, Append(parts, textPart), model)
          ELSE UserFilePartsFrom(fileBlocks, i + 1, parts, model)

convertMessageToUserModelMessage(content, fileBlocks, imageBlocks, isVision, model) ==
  LET imageParts == IF isVision THEN convertImageBlockToImagePart(imageBlocks)
                    ELSE Array(<<>>)
  IN IF IsThrow(imageParts) THEN imageParts
     ELSE UserFilePartsFrom(fileBlocks, 1, TextParts(content) \o imageParts.array, model)

\* a call of one of the two converters of fileProcessor for a block
FileProcessorCall(fn, blockId) == [fn |-> fn, block |-> blockId]

RECURSIVE UserFileCallsFrom(_, _, _)
\* the calls of fileProcessor that the loop of convertMessageToUserModelMessage
\* makes from block i on: the native attempt if (model), the text extraction
\* if (!processed), none after the return for a handle
UserFileCallsFrom(fileBlocks, i, model) ==
  IF i > Len(fileBlocks) THEN <<>>
  ELSE LET fileBlock == fileBlocks[i]
           filePart == IF model # Undefined
                       THEN convertFileBlockToFilePart(fileBlock, model) ELSE Null
       IN (IF model # Undefined
           THEN <<FileProcessorCall("convertFileBlockToFilePart", fileBlock.id)>>
           ELSE <<>>)
          \o (IF filePart # Null
              THEN IF IsHandle(filePart.data) THEN <<>>
                   ELSE UserFileCallsFrom(fileBlocks, i + 1, model)
              ELSE <<FileProcessorCall("convertFileBlockToTextPart", fileBlock.id)>>
                     \o UserFileCallsFrom(fileBlocks, i + 1, model))

RECURSIVE AssistantFileCallsFrom(_, _, _)
\* the calls of fileProcessor that the loop over fileBlocks of the assistant
\* paths makes from block i on: continue after a native part
AssistantFileCallsFrom(fileBlocks, i, model) ==
  IF i > Len(fileBlocks) THEN <<>>
  ELSE LET fileBlock == fileBlocks[i]
           filePart == IF model # Undefined
                       THEN convertFileBlockToFilePart(fileBlock, model) ELSE Null
       IN (IF model # Undefined
           THEN <<FileProcessorCall("convertFileBlockToFilePart", fileBlock.id)>>
           ELSE <<>>)
          \o (IF filePart # Null THEN <<>>
              ELSE <<FileProcessorCall("convertFileBlockToTextPart", fileBlock.id)>>)
          \o AssistantFileCallsFrom(fileBlocks, i + 1, model)

\* the calls of fileProcessor made by convertMessageToSdkParam for a message:
\* none when the image parts of a user message threw before the file loop, and
\* none for a tool message of part_001, whose path has no file loop
fileProcessorCalls(message, isVision, model, toolPath) ==
  IF message.role = "user" \/ message.role = "system"
  THEN IF isVision /\ IsThrow(convertImageBlockToImagePart(findImageBlocks(message)))
       THEN <<>>
       ELSE UserFileCallsFrom(findFileBlocks(message), 1, model)
  ELSE IF toolPath /\ message.role = "tool" THEN <<>>
  ELSE AssistantFileCallsFrom(findFileBlocks(message), 1, model)

RECURSIVE AssistantFileParts_noContinue(_, _, _)
\* AssistantFileParts without the continue after a native part: the extracted
\* text is pushed as well
AssistantFileParts_noContinue(fileBlocks, i, model) ==
  IF i > Len(fileBlocks) THEN <<>>
  ELSE LET fileBlock == fileBlocks[i]
           filePart == IF model # Undefined
                       THEN convertFileBlockToFilePart(fileBlock, model) ELSE Null
           textPart == convertFileBlockToTextPart(fileBlock)
       IN (IF filePart # Null THEN <<filePart>> ELSE <<>>)
          \o (IF textPart # Null THEN <<textPart>> ELSE <<>>)
          \o AssistantFileParts_noContinue(fileBlocks, i + 1, model)

RECURSIVE AssistantFileParts(_, _, _)
\* the loop over fileBlocks of the assistant paths, from block i on: the native
\* part when there is a model and a part, the extracted text otherwise
AssistantFileParts(fileBlocks, i, model) ==
  IF i > Len(fileBlocks) THEN <<>>
  ELSE LET fileBlock == fileBlocks[i]
           filePart == IF model # Undefined
                       THEN convertFileBlockToFilePart(fileBlock, model) ELSE Null
           textPart == convertFileBlockToTextPart(fileBlock)
       IN (IF filePart # Null THEN <<filePart>>
           ELSE IF textPart # Null THEN <<textPart>> ELSE <<>>)
          \o AssistantFileParts(fileBlocks, i + 1, model)

(***************************************************************************)
(* messageConverter.ts: a tool-call for every tool block, followed by a    *)
(* tool-result when the block has content.                                 *)
(***************************************************************************)
convertToolBlockToToolCallPart(toolBlock) ==
  ToolCallPart(toolBlock.toolId,
               IF Truthy(toolBlock.toolName) THEN toolBlock.toolName ELSE Str("unknown"),
               IF Truthy(toolBlock.arguments) THEN toolBlock.arguments ELSE Obj(<<>>),
               toolBlock.id)

convertToolBlockToToolResultPart(toolBlock) ==
  LET content == toolBlock.content
      output == IF IsNullish(content) THEN [type |-> "text", value |-> Str("")]
                ELSE IF content.t = "string" THEN [type |-> "text", value |-> content]
                ELSE [type |-> "json", value |-> content]
  IN ToolResultPart(toolBlock.toolId,
                    IF Truthy(toolBlock.toolName) THEN toolBlock.toolName ELSE Str("unknown"),
                    output, toolBlock.id)

hasToolResult(toolBlock) == ~IsNullish(toolBlock.content)

RECURSIVE ToolCallAndResultParts(_, _)
\* the loop over toolBlocks of convertMessageToAssistantAndToolMessages, from block i
ToolCallAndResultParts(toolBlocks, i) ==
  IF i > Len(toolBlocks) THEN <<>>
  ELSE <<convertToolBlockToToolCallPart(toolBlocks[i])>>
         \o (IF hasToolResult(toolBlocks[i])
             THEN <<convertToolBlockToToolResultPart(toolBlocks[i])>> ELSE <<>>)
         \o ToolCallAndResultParts(toolBlocks, i + 1)

convertMessageToAssistantAndToolMessages(content, fileBlocks, toolBlocks, thinkingBlocks, model) ==
  LET assistantParts == TextParts(content) \o ReasoningParts(thinkingBlocks)
                          \o AssistantFileParts(fileBlocks, 1, model)
  IN IF Len(toolBlocks) = 0
     THEN ModelMessage("assistant", assistantParts)
     ELSE ModelMessage("assistant",
                       assistantParts \o ToolCallAndResultParts(toolBlocks, 1))

\* convertMessageToSdkParam without the test of the role: every message takes
\* the else branch
convertMessageToSdkParam_noRoleDispatch(message, isVision, model) ==
  convertMessageToAssistantAndToolMessages(getMainTextContent(message),
                                           findFileBlocks(message),
                                           findToolBlocks(message),
                                           findThinkingBlocks(message), model)

\* roles other than user and system, the tool role included, take the else branch
convertMessageToSdkParam(message, isVision, model) ==
  IF message.role = "user" \/ message.role = "system"
  THEN convertMessageToUserModelMessage(getMainTextContent(message),
                                        findFileBlocks(message),
                                        findImageBlocks(message), isVision, model)
  ELSE convertMessageToAssistantAndToolMessages(getMainTextContent(message),
                                                findFileBlocks(message),
                                                findToolBlocks(message),
                                                findThinkingBlocks(message), model)

(***************************************************************************)
(* part_001: the tool-call id cache.  A cache state cs holds the Map       *)
(* toolCallIdCache (block id -> id) and, for the synchronous run that      *)
(* threads it, the block ids whose entry was looked up (reads: a has()     *)
(* call) and set (writes).  An operation that may call Math.random()       *)
(* yields the set of its possible outcomes.                                *)
(***************************************************************************)
EmptyCache == [b \in {} |-> Str("")]

CacheState(cache) == [cache |-> cache, reads |-> {}, writes |-> {}]

\* Math.random().toString(36).substring(2, 11): the fraction's base-36 digits,
\* none when Math.random() returns 0
RandomSuffixes == {"", "k3x9q2m1a"}

\* `tool_${Date.now()}_${Math.random().toString(36).substring(2, 11)}`
generateToolCallId ==
  {Str("tool_" \o ToString(now) \o "_" \o r) : now \in 1..MaxNow, r \in RandomSuffixes}

CacheHas(cs, id) == id \in DOMAIN cs.cache

CacheSet(cs, id, v) ==
  [cs EXCEPT !.cache = [b \in DOMAIN cs.cache \cup {id} |->
                          IF b = id THEN v ELSE cs.cache[b]],
             !.writes = @ \cup {id}]

\* getToolCallId without its first branch: the block's own toolId is ignored
getToolCallId_ignoresToolId(toolBlock, cs) ==
  LET looked == [cs EXCEPT !.reads = @ \cup {toolBlock.id}]
  IN IF CacheHas(cs, toolBlock.id)
     THEN {[id |-> cs.cache[toolBlock.id], cs |-> looked]}
     ELSE {[id |-> newId, cs |-> CacheSet(looked, toolBlock.id, newId)] :
             newId \in generateToolCallId}

getToolCallId(toolBlock, cs) ==
  IF Truthy(toolBlock.toolId)
  THEN {[id |-> toolBlock.toolId, cs |-> cs]}
  ELSE LET looked == [cs EXCEPT !.reads = @ \cup {toolBlock.id}]
       IN IF CacheHas(cs, toolBlock.id)
          THEN {[id |-> cs.cache[toolBlock.id], cs |-> looked]}
          ELSE {[id |-> newId, cs |-> CacheSet(looked, toolBlock.id, newId)] :
                  newId \in generateToolCallId}

\* toolCallIdCache.clear()
clearToolCallIdCache(cache) == EmptyCache

\* convertToolBlockToToolPart with its two branches swapped: the arguments are
\* looked at before the content
convertToolBlockToToolPart_callFirst(toolBlock, cs) ==
  {LET toolCallId == g.id
       toolName == IF Truthy(toolBlock.toolName) THEN toolBlock.toolName
                   ELSE Str("unknown_tool")
       parts == IF Truthy(toolBlock.arguments)
                   /\ ObjectKeysLength(toolBlock.arguments) > 0
                THEN <<ToolCallPart(toolCallId, toolName, toolBlock.arguments,
                                    toolBlock.id)>>
                ELSE IF ~IsNullish(toolBlock.content)
                THEN <<ToolResultPart(toolCallId, toolName,
                                      IF toolBlock.content.t = "string"
                                      THEN toolBlock.content
                                      ELSE Str(JSONstringify(toolBlock.content)),
                                      toolBlock.id)>>
                ELSE <<>>
   IN [parts |-> parts, cs |-> g.cs] : g \in getToolCallId(toolBlock, cs)}

\* the part of a tool block, as a list of zero or one part
convertToolBlockToToolPart(toolBlock, cs) ==
  {LET toolCallId == g.id
       toolName == IF Truthy(toolBlock.toolName) THEN toolBlock.toolName
                   ELSE Str("unknown_tool")
       parts == IF ~IsNullish(toolBlock.content)
                THEN <<ToolResultPart(toolCallId, toolName,
                                      IF toolBlock.content.t = "string"
                                      THEN toolBlock.content
                                      ELSE Str(JSONstringify(toolBlock.content)),
                                      toolBlock.id)>>
                ELSE IF Truthy(toolBlock.arguments)
                        /\ ObjectKeysLength(toolBlock.arguments) > 0
                THEN <<ToolCallPart(toolCallId, toolName, toolBlock.arguments,
                                    toolBlock.id)>>
                ELSE <<>>
   IN [parts |-> parts, cs |-> g.cs] : g \in getToolCallId(toolBlock, cs)}

\* the tool-role conversion of a block: null (no part) without content
convertToolBlockToToolResultPart_cached(toolBlock, cs) ==
  IF IsNullish(toolBlock.content)
  THEN {[parts |-> <<>>, cs |-> cs]}
  ELSE {LET toolName == IF Truthy(toolBlock.toolName) THEN toolBlock.toolName
                        ELSE Str("unknown_tool")
            output == IF toolBlock.content.t = "string" THEN toolBlock.content
                      ELSE Str(JSONstringify(toolBlock.content))
        IN [parts |-> <<ToolResultPart(g.id, toolName, output, toolBlock.id)>>,
            cs |-> g.cs] : g \in getToolCallId(toolBlock, cs)}

RECURSIVE ToolPartsFrom(_, _, _, _)
\* the loop over toolBlocks of convertMessageToAssistantModelMessage, from block
\* i on, with the parts pushed so far
ToolPartsFrom(toolBlocks, i, parts, cs) ==
  IF i > Len(toolBlocks) THEN {[parts |-> parts, cs |-> cs]}
  ELSE UNION {ToolPartsFrom(toolBlocks, i + 1, parts \o r.parts, r.cs) :
                r \in convertToolBlockToToolPart(toolBlocks[i], cs)}

convertMessageToAssistantModelMessage(content, fileBlocks, thinkingBlocks, toolBlocks, model, cs) ==
  {[result |-> ModelMessage("assistant",
                            r.parts \o AssistantFileParts(fileBlocks, 1, model)),
    cs |-> r.cs] :
     r \in ToolPartsFrom(toolBlocks, 1,
                         TextParts(content) \o ReasoningParts(thinkingBlocks), cs)}

RECURSIVE ToolResultsFrom(_, _, _, _)
\* the loop over toolBlocks of convertMessageToToolModelMessage: a block without
\* content is skipped before its id is derived
ToolResultsFrom(toolBlocks, i, parts, cs) ==
  IF i > Len(toolBlocks) THEN {[parts |-> parts, cs |-> cs]}
  ELSE IF IsNullish(toolBlocks[i].content)
  THEN ToolResultsFrom(toolBlocks, i + 1, parts, cs)
  ELSE UNION {ToolResultsFrom(toolBlocks, i + 1, parts \o r.parts, r.cs) :
                r \in convertToolBlockToToolResultPart_cached(toolBlocks[i], cs)}

convertMessageToToolModelMessage(toolBlocks, cs) ==
  {[result |-> ModelMessage("tool", r.parts), cs |-> r.cs] :
     r \in ToolResultsFrom(toolBlocks, 1, <<>>, cs)}

convertMessageToSdkParam_cached(message, isVision, model, cs) ==
  IF message.role = "user" \/ message.role = "system"
  THEN {[result |-> convertMessageToUserModelMessage(getMainTextContent(message),
                                                     findFileBlocks(message),
                                                     findImageBlocks(message),
                                                     isVision, model),
         cs |-> cs]}
  ELSE IF message.role = "assistant"
  THEN convertMessageToAssistantModelMessage(getMainTextContent(message),
                                             findFileBlocks(message),
                                             findThinkingBlocks(message),
                                             findToolBlocks(message), model, cs)
  ELSE IF message.role = "tool"
  THEN convertMessageToToolModelMessage(findToolBlocks(message), cs)
  ELSE convertMessageToAssistantModelMessage(getMainTextContent(message),
                                             findFileBlocks(message),
                                             findThinkingBlocks(message),
                                             findToolBlocks(message), model, cs)

(***************************************************************************)
(* part_002: the tool blocks of an assistant message are replayed as       *)
(* messages of their own, from the invocation record that a block holds in *)
(* metadata.rawMcpToolResponse.  A record keeps the id of its block.       *)
(***************************************************************************)
\* tr.tool
Tool(name, type) == [name |-> name, type |-> type]

ToolResponse(id, toolCallId, tool, toolName, arguments, status, response, blockId) ==
  [id |-> id, toolCallId |-> toolCallId, tool |-> tool, toolName |-> toolName,
   arguments |-> arguments, status |-> status, response |-> response,
   blockId |-> blockId]

\* a tool block of part_002: rawMcpToolResponse is Undefined when the block has
\* no metadata or no record
ReplayToolBlock(id, rawMcpToolResponse) ==
  [id |-> id, rawMcpToolResponse |-> rawMcpToolResponse]

\* tr.tool and tr.toolName of a record: a client-side tool, a provider tool, a
\* record without tr.tool, and a record with neither
ReplayNamings ==
  {[tool |-> Tool(Str("search"), "mcp"), toolName |-> Str("legacy_tool")],
   [tool |-> Tool(Str("web_search"), "provider"), toolName |-> Str("legacy_tool")],
   [tool |-> Undefined, toolName |-> Str("legacy_tool")],
   [tool |-> Undefined, toolName |-> Undefined]}

ReplayStatuses == {"pending", "done", "error", "cancelled"}

ReplayArguments == {Undefined, Str("{\"query\":\"search term\"}")}

\* what a record holds, other than its ids
ToolResponseShapes ==
  [toolCallId : {Undefined, Str("call_abc123")}, naming : ReplayNamings,
   arguments : ReplayArguments, status : ReplayStatuses, response : ContentValues]

ReplayToolBlockShapes ==
  {[present |-> FALSE]} \cup {[present |-> TRUE, tr |-> x] : x \in ToolResponseShapes}

\* the tool blocks of the shapes f[1], ..., f[n]; the i-th block is tool-i
ReplayToolBlocks(f) ==
  [i \in DOMAIN f |->
     IF f[i].present
     THEN ReplayToolBlock(BlockId(i),
            ToolResponse(Str("response-" \o ToString(i)), f[i].tr.toolCallId,
                         f[i].tr.naming.tool, f[i].tr.naming.toolName,
                         f[i].tr.arguments,
                         f[i].tr.status, f[i].tr.response, BlockId(i)))
     ELSE ReplayToolBlock(BlockId(i), Undefined)]

\* JSON.stringify(value): undefined for undefined, the text otherwise
JSONstringifyValue(value) ==
  IF value.t = "undefined" THEN Undefined
  ELSE IF value.t = "null" THEN Str("null")
  ELSE IF value.t = "string" THEN Str("\"" \o value.s \o "\"")
  ELSE Str(JSONstringify(value))

\* stringifyToolOutput with a test of typeof value === 'object'
stringifyToolOutput_objectsOnly(value) ==
  IF value.t = "object" THEN JSONstringifyValue(value) ELSE Str("")

stringifyToolOutput(value) ==
  IF value.t = "string" THEN value ELSE JSONstringifyValue(value)

\* safeParseJSON({ text }): the objects whose JSON text is `text`
safeParseJSON(text) == {v \in ArgumentValues : v.t = "object" /\ JSONstringify(v) = text}

parseToolCallInput(value) ==
  IF value.t # "string" THEN value
  ELSE LET parsed == safeParseJSON(value.s)
       IN IF parsed # {} THEN CHOOSE v \in parsed : TRUE ELSE value

\* tr.toolCallId ?? tr.id
ReplayToolCallId(tr) == IF IsNullish(tr.toolCallId) THEN tr.id ELSE tr.toolCallId

\* tr.tool?.name ?? tr.toolName
ReplayToolName(tr) ==
  IF tr.tool = Undefined \/ IsNullish(tr.tool.name) THEN tr.toolName ELSE tr.tool.name

\* toolBlocks.map(block => block?.metadata?.rawMcpToolResponse).filter(Boolean)
toolResponses(toolBlocks) ==
  LET mapped == [i \in DOMAIN toolBlocks |-> toolBlocks[i].rawMcpToolResponse]
  IN SelectSeq(mapped, LAMBDA tr : tr # Undefined)

\* replayable without its filter: provider-executed records are replayed too
replayable_all(responses) == responses

\* toolResponses.filter(tr => tr?.tool?.type !== 'provider')
replayable(responses) ==
  SelectSeq(responses, LAMBDA tr : ~(tr.tool # Undefined /\ tr.tool.type = "provider"))

toolCallParts(records) ==
  [i \in DOMAIN records |->
     ToolCallPart(ReplayToolCallId(records[i]), ReplayToolName(records[i]),
                  parseToolCallInput(records[i].arguments), records[i].blockId)]

\* the output of a replayed result
ReplayOutput(tr) ==
  [type |-> IF tr.status = "error" \/ tr.status = "cancelled" THEN "error-text"
            ELSE "text",
   value |-> IF tr.status = "cancelled" /\ IsNullish(tr.response) THEN Str("cancelled")
             ELSE stringifyToolOutput(tr.response)]

\* toolResultParts without its filter: a result for every record
toolResultParts_anyStatus(records) ==
  [i \in DOMAIN records |->
     ToolResultPart(ReplayToolCallId(records[i]), ReplayToolName(records[i]),
                    ReplayOutput(records[i]), records[i].blockId)]

toolResultParts(records) ==
  LET terminal == SelectSeq(records,
                            LAMBDA tr : tr.status \in {"done", "error", "cancelled"})
  IN [i \in DOMAIN terminal |->
        ToolResultPart(ReplayToolCallId(terminal[i]), ReplayToolName(terminal[i]),
                       ReplayOutput(terminal[i]), terminal[i].blockId)]

buildToolHistoryMessages(toolBlocks) ==
  LET records == replayable(toolResponses(toolBlocks))
      callParts == toolCallParts(records)
      resultParts == toolResultParts(records)
  IN IF Len(records) = 0 THEN <<>>
     ELSE (IF Len(callParts) > 0 THEN <<ModelMessage("assistant", callParts)>>
           ELSE <<>>)
          \o (IF Len(resultParts) > 0 THEN <<ModelMessage("tool", resultParts)>>
              ELSE <<>>)

\* convertMessageToAssistantModelMessage of part_002 with the assistant message
\* always appended to the tool history
convertMessageToAssistantModelMessage_always(message, content, fileBlocks, thinkingBlocks, model) ==
  LET toolHistoryMessages == buildToolHistoryMessages(findToolBlocks(message))
      parts == TextParts(content) \o ReasoningParts(thinkingBlocks)
                 \o AssistantFileParts(fileBlocks, 1, model)
      assistantMessage == ModelMessage("assistant", parts)
  IN IF Len(toolHistoryMessages) = 0 THEN assistantMessage
     ELSE Array(toolHistoryMessages \o <<assistantMessage>>)

convertMessageToAssistantModelMessage_replay(message, content, fileBlocks, thinkingBlocks, model) ==
  LET toolHistoryMessages == buildToolHistoryMessages(findToolBlocks(message))
      parts == TextParts(content) \o ReasoningParts(thinkingBlocks)
                 \o AssistantFileParts(fileBlocks, 1, model)
      assistantMessage == ModelMessage("assistant", parts)
      hasAssistantContent == Len(assistantMessage.content) > 0
  IN IF Len(toolHistoryMessages) = 0 THEN assistantMessage
     ELSE IF hasAssistantContent THEN Array(toolHistoryMessages \o <<assistantMessage>>)
     ELSE Array(toolHistoryMessages)

\* part_002: roles other than user and system take the else branch
convertMessageToSdkParam_replay(message, isVision, model) ==
  IF message.role = "user" \/ message.role = "system"
  THEN convertMessageToUserModelMessage(getMainTextContent(message),
                                        findFileBlocks(message),
                                        findImageBlocks(message), isVision, model)
  ELSE convertMessageToAssistantModelMessage_replay(message,
                                                    getMainTextContent(message),
                                                    findFileBlocks(message),
                                                    findThinkingBlocks(message), model)

(***************************************************************************)
(* convertMessagesToSdkMessages, run alone from its call to its end.  The  *)
(* loop and the image-enhancement pass are the same in the three           *)
(* revisions; part_001 wraps them in try/finally.  An outcome is the       *)
(* returned array or the exception; the elements of a returned array may   *)
(* be Undefined.                                                           *)
(***************************************************************************)
\* seq.slice(-2)
LastTwo(seq) == SubSeq(seq, IF Len(seq) > 2 THEN Len(seq) - 1 ELSE 1, Len(seq))

\* seq.filter(m => m.role === role)[0]
FirstWithRole(seq, role) ==
  LET found == SelectSeq(seq, LAMBDA m : m.role = role)
  IN IF Len(found) > 0 THEN found[1] ELSE Undefined

\* await findImageBlocks(assistantMessage): the extractor is not handed a
\* message when neither of the last two has the role assistant, and then it
\* returns no block or throws
FoundImageBlocks(assistantMessage) ==
  IF assistantMessage = Undefined THEN {Array(<<>>), Threw("TypeError")}
  ELSE {Array(findImageBlocks(assistantMessage))}

\* the body of if (isImageEnhancementModel(model) && messages.length >= 3)
ImageEnhancementPass(messages, sdkMessages) ==
  LET assistantMessage == FirstWithRole(LastTwo(messages), "assistant")
      assistantSdkMessage == FirstWithRole(LastTwo(sdkMessages), "assistant")
      userSdkMessage == FirstWithRole(LastTwo(sdkMessages), "user")
      systemSdkMessages == SelectSeq(sdkMessages, LAMBDA m : m.role = "system")
  IN {IF IsThrow(imageBlocks) THEN imageBlocks
      ELSE LET imageParts == convertImageBlockToImagePart(imageBlocks.array)
           IN IF IsThrow(imageParts) THEN imageParts
              ELSE IF userSdkMessage = Undefined THEN Threw("TypeError")
              ELSE LET updated ==
                         IF HasStringContent(userSdkMessage)
                         THEN ModelMessage(userSdkMessage.role,
                                <<TextPart(userSdkMessage.text)>> \o imageParts.array)
                         ELSE ModelMessage(userSdkMessage.role,
                                userSdkMessage.content \o imageParts.array)
                   IN IF Len(systemSdkMessages) > 0
                      THEN Array(<<systemSdkMessages[1], assistantSdkMessage, updated>>)
                      ELSE Array(<<assistantSdkMessage, updated>>) :
        imageBlocks \in FoundImageBlocks(assistantMessage)}

\* what follows the loop: the pass, or return sdkMessages
AfterLoop(messages, sdkMessages, model) ==
  IF isImageEnhancementModel(model) /\ Len(messages) >= 3
  THEN ImageEnhancementPass(messages, sdkMessages)
  ELSE {Array(sdkMessages)}

RECURSIVE SdkMessagesFrom_firstOnly(_, _, _, _, _)
\* the loop pushing sdkMessage[0] of a list instead of spreading the list
SdkMessagesFrom_firstOnly(messages, i, sdkMessages, isVision, model) ==
  IF i > Len(messages) THEN Array(sdkMessages)
  ELSE LET sdkMessage == convertMessageToSdkParam(messages[i], isVision, model)
       IN IF IsThrow(sdkMessage) THEN sdkMessage
          ELSE SdkMessagesFrom_firstOnly(messages, i + 1,
                               sdkMessages \o (IF IsArray(sdkMessage)
                                               THEN SubSeq(sdkMessage.array, 1, 1)
                                               ELSE <<sdkMessage>>),
                               isVision, model)

RECURSIVE SdkMessagesFrom(_, _, _, _, _)
\* messageConverter.ts: the loop over messages, from message i on
SdkMessagesFrom(messages, i, sdkMessages, isVision, model) ==
  IF i > Len(messages) THEN Array(sdkMessages)
  ELSE LET sdkMessage == convertMessageToSdkParam(messages[i], isVision, model)
       IN IF IsThrow(sdkMessage) THEN sdkMessage
          ELSE SdkMessagesFrom(messages, i + 1,
                               sdkMessages \o (IF IsArray(sdkMessage) THEN sdkMessage.array
                                               ELSE <<sdkMessage>>),
                               isVision, model)

\* messageConverter.ts
convertMessagesToSdkMessages(messages, model) ==
  LET looped == SdkMessagesFrom(messages, 1, <<>>, isVisionModel(model), model)
  IN IF IsThrow(looped) THEN {looped} ELSE AfterLoop(messages, looped.array, model)

RECURSIVE SdkMessagesFrom_replay(_, _, _, _, _)
\* part_002: the loop over messages, from message i on
SdkMessagesFrom_replay(messages, i, sdkMessages, isVision, model) ==
  IF i > Len(messages) THEN Array(sdkMessages)
  ELSE LET sdkMessage == convertMessageToSdkParam_replay(messages[i], isVision, model)
       IN IF IsThrow(sdkMessage) THEN sdkMessage
          ELSE SdkMessagesFrom_replay(messages, i + 1,
                               sdkMessages \o (IF IsArray(sdkMessage) THEN sdkMessage.array
                                               ELSE <<sdkMessage>>),
                               isVision, model)

\* part_002
convertMessagesToSdkMessages_replay(messages, model) ==
  LET looped == SdkMessagesFrom_replay(messages, 1, <<>>, isVisionModel(model), model)
  IN IF IsThrow(looped) THEN {looped} ELSE AfterLoop(messages, looped.array, model)

RECURSIVE SdkMessagesFrom_cached(_, _, _, _, _, _)
\* part_001: the loop over messages, from message i on, with the cache
SdkMessagesFrom_cached(messages, i, sdkMessages, isVision, model, cs) ==
  IF i > Len(messages) THEN {[result |-> Array(sdkMessages), cs |-> cs]}
  ELSE UNION {IF IsThrow(r.result) THEN {r}
              ELSE SdkMessagesFrom_cached(messages, i + 1,
                     sdkMessages \o (IF IsArray(r.result) THEN r.result.array
                                     ELSE <<r.result>>),
                     isVision, model, r.cs) :
                r \in convertMessageToSdkParam_cached(messages[i], isVision, model, cs)}

\* part_001: the outcomes of the try block; finally clears the cache
convertMessagesToSdkMessages_cached(messages, model, cs) ==
  UNION {IF IsThrow(looped.result) THEN {looped.result}
         ELSE AfterLoop(messages, looped.result.array, model) :
           looped \in SdkMessagesFrom_cached(messages, 1, <<>>, isVisionModel(model),
                                             model, cs)}

(***************************************************************************)
(* State.                                                                  *)
(***************************************************************************)
VARIABLES
  toolCallIdCache,  \* part_001: the module-level Map, block id -> tool-call id
  cacheWriter,      \* for each cache entry, the caller that set it (history)
  calls,            \* the top-level convertMessagesToSdkMessages calls of part_001
  sdkParam,         \* the outcome of a direct call of convertMessageToSdkParam
  mcp,              \* McpClientService: its clients, and the transports and
                    \* getClient calls made so far (history)
  fetch             \* a fetchChatCompletion call: its position, and the chunks
                    \* delivered and the calls made so far (history)

vars == <<toolCallIdCache, cacheWriter, calls, sdkParam, mcp, fetch>>

Calls == 1..NumCalls

\* the caller of a direct convertMessageToSdkParam call, as a cache writer
DirectCaller == NumCalls + 1

NoResult == [variant |-> "none"]

\* McpClientService.getInstance() after the instance was reset
NoClients == [clients |-> <<>>, transports |-> <<>>, gets |-> <<>>]

\* no fetchChatCompletion call is under way
IdleFetch ==
  [pc |-> "idle", toolUse |-> FALSE, messages |-> "", events |-> <<>>,
   failed |-> "", thrown |-> ""]

IdleCall ==
  [status |-> "idle", messages |-> <<>>, idx |-> 0, sdkMessages |-> <<>>,
   ids |-> {}, foreign |-> {}]

Init ==
  /\ toolCallIdCache = EmptyCache
  /\ cacheWriter = [b \in {} |-> DirectCaller]
  /\ calls = [c \in Calls |-> IdleCall]
  /\ sdkParam = NoResult
  /\ mcp = NoClients
  /\ fetch = IdleFetch

Range(seq) == {seq[i] : i \in 1..Len(seq)}

IsToolPart(p) == p.type \in {"tool-call", "tool-result"}

\* the tool parts of a compiled message that come from blocks without a toolId
DerivedIdParts(message, result) ==
  {p \in Range(result.content) :
     /\ IsToolPart(p)
     /\ \E b \in Range(message.tools) : b.id = p.blockId /\ ~Truthy(b.toolId)}

\* the writers of the cache entries after a run of `writer` that ended in cs
WritersAfter(writer, cs) ==
  [b \in DOMAIN cs.cache |-> IF b \in cs.writes THEN writer ELSE cacheWriter[b]]

(***************************************************************************)
(* Direct calls of the exported conversions of one message.                *)
(***************************************************************************)
\* messageConverter.ts: convertMessageToSdkParam(message, isVisionModel, model),
\* for a message of `messages`, a flag of `flags` and a model of `models`
ConvertMessageToSdkParam(messages, flags, models) ==
  /\ sdkParam = NoResult
  /\ \E message \in messages : \E isVision \in flags : \E model \in models :
       sdkParam' = [variant |-> "pairing", message |-> message,
                    isVision |-> isVision, model |-> model,
                    result |-> convertMessageToSdkParam(message, isVision, model),
                    fileCalls |-> fileProcessorCalls(message, isVision, model, FALSE),
                    reads |-> {}, writes |-> {}]
  /\ UNCHANGED <<toolCallIdCache, cacheWriter, calls>>
  /\ UNCHANGED <<mcp, fetch>>

\* part_001: convertMessageToSdkParam(message, isVisionModel, model), for a
\* message of `messages`, a flag of `flags` and a model of `models`; the outcome
\* is kept for inspection when `keep`, and dropped by the caller otherwise
ConvertMessageToSdkParamCached(messages, flags, models, keep) ==
  /\ sdkParam = NoResult
  /\ \E message \in messages : \E isVision \in flags : \E model \in models :
       \E r \in convertMessageToSdkParam_cached(message, isVision, model,
                                                CacheState(toolCallIdCache)) :
         /\ sdkParam' = IF keep
                        THEN [variant |-> "cached", message |-> message,
                              isVision |-> isVision, model |-> model,
                              result |-> r.result,
                              fileCalls |-> fileProcessorCalls(message, isVision,
                                                               model, TRUE),
                              reads |-> r.cs.reads, writes |-> r.cs.writes]
                        ELSE NoResult
         /\ toolCallIdCache' = r.cs.cache
         /\ cacheWriter' = WritersAfter(DirectCaller, r.cs)
  /\ UNCHANGED calls
  /\ UNCHANGED <<mcp, fetch>>

\* the module is loaded afresh (a new process, a reset module registry)
Reload ==
  /\ sdkParam # NoResult
  /\ toolCallIdCache' = EmptyCache
  /\ cacheWriter' = [b \in {} |-> DirectCaller]
  /\ sdkParam' = NoResult
  /\ UNCHANGED calls
  /\ UNCHANGED <<mcp, fetch>>

\* conversions of single assistant and tool messages with the default
\* arguments (isVisionModel = false, no model), one per load of the module
NextConv ==
  \/ ConvertMessageToSdkParam(Messages, {FALSE}, {Undefined})
  \/ ConvertMessageToSdkParamCached(Messages, {FALSE}, {Undefined}, TRUE)
  \/ Reload

SpecConv == Init /\ [][NextConv]_vars

\* part_002: convertMessageToSdkParam(message) with the default arguments, for
\* an assistant message with at most MaxToolBlocks tool blocks
ConvertMessageToSdkParamReplay ==
  /\ sdkParam = NoResult
  /\ \E c \in MainTexts : \E th \in ThinkingLists : \E n \in 0..MaxToolBlocks :
       \E f \in [1..n -> ReplayToolBlockShapes] :
         LET message == Message("assistant", c, th, ReplayToolBlocks(f), <<>>, <<>>)
         IN sdkParam' = [variant |-> "replay", message |-> message,
                         isVision |-> FALSE, model |-> Undefined,
                         result |-> convertMessageToSdkParam_replay(message, FALSE,
                                                                    Undefined),
                         reads |-> {}, writes |-> {}]
  /\ UNCHANGED <<toolCallIdCache, cacheWriter, calls>>
  /\ UNCHANGED <<mcp, fetch>>

\* part_002: conversions of single assistant messages
NextReplay ==
  \/ ConvertMessageToSdkParamReplay
  \/ Reload

SpecReplay == Init /\ [][NextReplay]_vars

\* messages of every role with image, file and tool blocks
MediaToolLists ==
  {<<>>,
   <<ToolBlock(BlockId(1), Undefined, Str("my_tool"),
               Obj(<<[k |-> "query", q |-> TRUE, v |-> "search term"]>>), Undefined),
     ToolBlock(BlockId(2), Str("call_abc123"), Str("my_tool"), Undefined,
               Str("result"))>>}

MediaMessages ==
  {Message(r, c, <<>>, tb, im, f) :
     r \in {"system", "user", "assistant", "tool"}, c \in MainTexts,
     tb \in MediaToolLists, im \in ImageBlockLists, f \in FileBlockLists}

\* the model argument: left out, or a model
SuppliedModels == {Undefined, Model(TRUE, FALSE)}

\* conversions of single messages of every role
NextMedia ==
  \/ ConvertMessageToSdkParam(MediaMessages, BOOLEAN, SuppliedModels)
  \/ ConvertMessageToSdkParamCached(MediaMessages, BOOLEAN, SuppliedModels, TRUE)
  \/ Reload

SpecMedia == Init /\ [][NextMedia]_vars

(***************************************************************************)
(* convertMessagesToSdkMessages of the three revisions, each call run      *)
(* alone, over conversations of the messages below.                        *)
(***************************************************************************)
\* a tool block with a result and the record of its invocation
RecordedToolBlock ==
  [id |-> BlockId(1), toolId |-> Str("call_abc123"), toolName |-> Str("my_tool"),
   arguments |-> Obj(<<[k |-> "query", q |-> TRUE, v |-> "search term"]>>),
   content |-> Str("result"),
   rawMcpToolResponse |->
     ToolResponse(Str("response-1"), Str("call_abc123"), Tool(Str("my_tool"), "mcp"),
                  Str("my_tool"), Str("{\"query\":\"search term\"}"), "done",
                  Str("result"), BlockId(1))]

ReadableImage == ImageBlock(ImageBlockId(1), ImageFile("/images/a.jpg", "image/jpeg", TRUE), NoUrl)

UnreadableImage == ImageBlock(ImageBlockId(1), ImageFile("/images/gone.jpg", "image/jpeg", FALSE), NoUrl)

Base64Image == ImageBlock(ImageBlockId(2), NoImageFile, Url(TRUE, "image/png", TRUE, "QUJD"))

PlainDataImage == ImageBlock(ImageBlockId(1), NoImageFile, Url(TRUE, "image/svg+xml", FALSE, "QUJD"))

ConversationMessages ==
  {Message("system", "Be brief", <<>>, <<>>, <<>>, <<>>),
   Message("user", "Hello", <<>>, <<>>, <<>>, <<>>),
   Message("user", "", <<>>, <<>>, <<>>, <<FileBlock(FileBlockId(1), "handle", "")>>),
   Message("user", "Read this", <<>>, <<>>, <<>>,
           <<FileBlock(FileBlockId(1), "inline", ""),
             FileBlock(FileBlockId(2), "handle", "")>>),
   Message("user", "Look", <<>>, <<>>, <<ReadableImage>>,
           <<FileBlock(FileBlockId(1), "inline", ""),
             FileBlock(FileBlockId(2), "none", "file text")>>),
   Message("user", "Look", <<>>, <<>>, <<PlainDataImage>>, <<>>),
   Message("assistant", "Sure", <<>>, <<>>, <<>>, <<>>),
   Message("assistant", "Here", <<>>, <<>>, <<ReadableImage, Base64Image>>, <<>>),
   Message("assistant", "", <<>>, <<RecordedToolBlock>>, <<UnreadableImage>>, <<>>),
   Message("assistant", "Done", <<"because X">>, <<>>, <<PlainDataImage>>, <<>>),
   Message("tool", "", <<>>, <<RecordedToolBlock>>, <<>>, <<>>)}

\* messageConverter.ts: convertMessagesToSdkMessages(messages, model)
ConvertMessagesToSdkMessages ==
  /\ sdkParam = NoResult
  /\ \E n \in 1..MaxConversation : \E messages \in [1..n -> ConversationMessages] :
       \E model \in Models : \E result \in convertMessagesToSdkMessages(messages, model) :
         sdkParam' = [variant |-> "pairing", messages |-> messages, model |-> model,
                      result |-> result]
  /\ UNCHANGED <<toolCallIdCache, cacheWriter, calls>>
  /\ UNCHANGED <<mcp, fetch>>

\* part_001: convertMessagesToSdkMessages(messages, model)
ConvertMessagesToSdkMessagesCached ==
  /\ sdkParam = NoResult
  /\ \E n \in 1..MaxConversation : \E messages \in [1..n -> ConversationMessages] :
       \E model \in Models :
         \E result \in convertMessagesToSdkMessages_cached(
                          messages, model, CacheState(toolCallIdCache)) :
           sdkParam' = [variant |-> "cached", messages |-> messages, model |-> model,
                        result |-> result]
  /\ toolCallIdCache' = clearToolCallIdCache(toolCallIdCache)
  /\ cacheWriter' = [b \in {} |-> DirectCaller]
  /\ UNCHANGED calls
  /\ UNCHANGED <<mcp, fetch>>

\* part_002: convertMessagesToSdkMessages(messages, model)
ConvertMessagesToSdkMessagesReplay ==
  /\ sdkParam = NoResult
  /\ \E n \in 1..MaxConversation : \E messages \in [1..n -> ConversationMessages] :
       \E model \in Models :
         \E result \in convertMessagesToSdkMessages_replay(messages, model) :
           sdkParam' = [variant |-> "replay", messages |-> messages, model |-> model,
                        result |-> result]
  /\ UNCHANGED <<toolCallIdCache, cacheWriter, calls>>
  /\ UNCHANGED <<mcp, fetch>>

NextCompile ==
  \/ ConvertMessagesToSdkMessages
  \/ ConvertMessagesToSdkMessagesCached
  \/ ConvertMessagesToSdkMessagesReplay
  \/ Reload

SpecCompile == Init /\ [][NextCompile]_vars

(***************************************************************************)
(* Conversions of single assistant messages with several thinking blocks,  *)
(* in the three revisions.                                                 *)
(***************************************************************************)
ThinkingContents == {"", "because X", "so Y"}

ReasoningLists == UNION {[1..n -> ThinkingContents] : n \in 0..MaxThinkingBlocks}

ReasoningMessages ==
  {Message("assistant", c, th, tb, <<>>, f) :
     c \in MainTexts, th \in ReasoningLists, tb \in {<<>>, <<RecordedToolBlock>>},
     f \in {<<>>, <<FileBlock(FileBlockId(1), "inline", "file text")>>}}

\* part_002: convertMessageToSdkParam(message, isVisionModel, model), for a
\* message of `messages`, a flag of `flags` and a model of `models`
ConvertMessageToSdkParamHistory(messages, flags, models) ==
  /\ sdkParam = NoResult
  /\ \E message \in messages : \E isVision \in flags : \E model \in models :
       sdkParam' = [variant |-> "replay", message |-> message,
                    isVision |-> isVision, model |-> model,
                    result |-> convertMessageToSdkParam_replay(message, isVision, model),
                    reads |-> {}, writes |-> {}]
  /\ UNCHANGED <<toolCallIdCache, cacheWriter, calls>>
  /\ UNCHANGED <<mcp, fetch>>

NextReasoning ==
  \/ ConvertMessageToSdkParam(ReasoningMessages, {FALSE}, SuppliedModels)
  \/ ConvertMessageToSdkParamCached(ReasoningMessages, {FALSE}, SuppliedModels, TRUE)
  \/ ConvertMessageToSdkParamHistory(ReasoningMessages, {FALSE}, SuppliedModels)
  \/ Reload

SpecReasoning == Init /\ [][NextReasoning]_vars

(***************************************************************************)
(* McpClientService.getClient, as McpClientService.test.ts drives it: the  *)
(* service is not among the sources, and what is below is what the tests   *)
(* expect of it.  A server configuration is a record that has the field    *)
(* timeout or headers only when the configuration sets it.                 *)
(***************************************************************************)
DefaultTimeoutSeconds == 300

MinTimeoutSeconds == 5

MaxTimeoutSeconds == 3600

MillisecondsPerSecond == 1000

\* createMockServer(): the configuration without overrides
BaseServer ==
  [id |-> "test-server", name |-> "Test Server", type |-> "streamableHttp",
   baseUrl |-> "https://example.com/mcp", isActive |-> TRUE]

\* the timeouts, in seconds, that the configurations set
ConfiguredTimeouts == {1, 5, 120, 300, 600, 3600, 5000}

CustomHeaders == [name |-> "X-Custom", value |-> "value"]

\* createMockServer(overrides)
MCPServers ==
  {BaseServer, [headers |-> CustomHeaders] @@ BaseServer}
    \cup {[timeout |-> t] @@ BaseServer : t \in ConfiguredTimeouts}
    \cup {[timeout |-> t, headers |-> CustomHeaders] @@ BaseServer :
            t \in ConfiguredTimeouts}

\* the timeout option without the clamp to [5, 3600]
timeoutOption_unclamped(server) ==
  MillisecondsPerSecond
    * (IF "timeout" \in DOMAIN server THEN server.timeout ELSE DefaultTimeoutSeconds)

\* the timeout option of the transport, in milliseconds
timeoutOption(server) ==
  LET seconds == IF "timeout" \in DOMAIN server THEN server.timeout
                 ELSE DefaultTimeoutSeconds
      clamped == IF seconds < MinTimeoutSeconds THEN MinTimeoutSeconds
                 ELSE IF seconds > MaxTimeoutSeconds THEN MaxTimeoutSeconds
                 ELSE seconds
  IN MillisecondsPerSecond * clamped

\* new RNStreamableHTTPClientTransport(url, options)
Transport(server) ==
  [url |-> server.baseUrl,
   options |-> [timeout |-> timeoutOption(server),
                requestInit |-> IF "headers" \in DOMAIN server
                                THEN [headers |-> server.headers]
                                ELSE [none |-> TRUE],
                authProvider |-> [oauth |-> server.id]]]

\* the key of the clients map with the id of the server alone
getServerKey_idOnly(server) == [id |-> server.id]

\* the key under which the client of a server configuration is kept
getServerKey(server) == server

\* getClient(server): the client kept for the configuration, or a new transport
\* and a new client connected over it
GetClient ==
  /\ Len(mcp.gets) < MaxGetClientCalls
  /\ \E server \in MCPServers :
       LET key == getServerKey(server)
       IN IF key \in DOMAIN mcp.clients
          THEN mcp' = [mcp EXCEPT
                 !.gets = Append(@, [server |-> server, client |-> mcp.clients[key],
                                     transport |-> 0])]
          ELSE LET client == Len(mcp.transports) + 1
               IN mcp' = [clients |-> (key :> client) @@ mcp.clients,
                          transports |-> Append(mcp.transports, Transport(server)),
                          gets |-> Append(mcp.gets,
                                          [server |-> server, client |-> client,
                                           transport |-> client])]
  /\ UNCHANGED <<toolCallIdCache, cacheWriter, calls, sdkParam, fetch>>

\* beforeEach: the mocks are cleared and the singleton is reset
ResetInstance ==
  /\ mcp # NoClients
  /\ mcp' = NoClients
  /\ UNCHANGED <<toolCallIdCache, cacheWriter, calls, sdkParam, fetch>>

NextMcp ==
  \/ GetClient
  \/ ResetInstance

SpecMcp == Init /\ [][NextMcp]_vars

(***************************************************************************)
(* ApiService.ts: fetchChatCompletion, one call from its start to its      *)
(* return or throw, a step per awaited call.  events is the history of the *)
(* chunks handed to onChunkReceived and of the calls of the collaborators  *)
(* (AiProviderNew, buildStreamTextParams and mcpService are not among the  *)
(* sources: each either completes or throws).                              *)
(***************************************************************************)
\* the chunk { type }
Chunk(type) == [type |-> type]

\* the chunk { type: ChunkType.ERROR, error }
ErrorChunk(error) == [type |-> "ERROR", error |-> error]

\* onChunkReceived(chunk), the middleware's onChunk included
Delivered(chunk) == [kind |-> "chunk", chunk |-> chunk]

\* a collaborator is called
CallOf(fn, argument) == [kind |-> "call", fn |-> fn, argument |-> argument]

\* what a collaborator may throw
Errors == {"Error: network request failed", "Error: aborted"}

\* the chunks that the completion hands to onChunk while it streams
StreamChunkTypes == {"TEXT_DELTA", "THINKING_DELTA", "BLOCK_COMPLETE"}

\* the prompt argument: none, or a prompt that replaces the messages
Prompts == {"", "Summarize"}

\* the awaited call that follows onChunkReceived({ type: LLM_RESPONSE_CREATED })
AfterCreated(toolUse) == IF toolUse THEN "fetchAssistantMcpTools" ELSE "buildStreamTextParams"

\* fetchChatCompletion is called: new AiProviderNew(...) and getActualProvider()
\* run, then the LLM_RESPONSE_CREATED chunk is delivered, up to the first await.
\* toolUse is isPromptToolUse(assistant) || isSupportedToolUse(assistant).
FetchChatCompletion ==
  /\ fetch.pc = "idle"
  /\ \E toolUse \in BOOLEAN : \E prompt \in Prompts :
       \/ fetch' = [pc |-> AfterCreated(toolUse), toolUse |-> toolUse,
                    messages |-> IF prompt # "" THEN prompt ELSE "messages",
                    events |-> <<Delivered(Chunk("LLM_RESPONSE_CREATED"))>>,
                    failed |-> "", thrown |-> ""]
       \/ \E error \in Errors :
            fetch' = [pc |-> "threw", toolUse |-> toolUse, messages |-> "messages",
                      events |-> <<>>, failed |-> "AiProviderNew", thrown |-> error]
  /\ UNCHANGED <<toolCallIdCache, cacheWriter, calls, sdkParam, mcp>>

\* mcpTools.push(...(await fetchAssistantMcpTools(assistant))): the tools, or the
\* rejection of mcpService.getActiveMcpServers(), which is outside the try
FetchAssistantMcpTools ==
  /\ fetch.pc = "fetchAssistantMcpTools"
  /\ LET called == Append(fetch.events, CallOf("fetchAssistantMcpTools", "assistant"))
     IN \/ fetch' = [fetch EXCEPT !.pc = "buildStreamTextParams", !.events = called]
        \/ \E error \in Errors :
             fetch' = [fetch EXCEPT !.pc = "threw", !.events = called,
                                    !.failed = "fetchAssistantMcpTools",
                                    !.thrown = error]
  /\ UNCHANGED <<toolCallIdCache, cacheWriter, calls, sdkParam, mcp>>

\* await buildStreamTextParams(messages, assistant, provider, ...), outside the try
BuildStreamTextParams ==
  /\ fetch.pc = "buildStreamTextParams"
  /\ LET called == Append(fetch.events, CallOf("buildStreamTextParams", fetch.messages))
     IN \/ fetch' = [fetch EXCEPT !.pc = "completions", !.events = called]
        \/ \E error \in Errors :
             fetch' = [fetch EXCEPT !.pc = "threw", !.events = called,
                                    !.failed = "buildStreamTextParams",
                                    !.thrown = error]
  /\ UNCHANGED <<toolCallIdCache, cacheWriter, calls, sdkParam, mcp>>

\* AI.completions(modelId, aiSdkParams, { onChunk: onChunkReceived, ... }) starts
Completions ==
  /\ fetch.pc = "completions"
  /\ fetch' = [fetch EXCEPT !.pc = "streaming",
                            !.events = Append(@, CallOf("AI.completions", "aiSdkParams"))]
  /\ UNCHANGED <<toolCallIdCache, cacheWriter, calls, sdkParam, mcp>>

\* the completion hands a chunk of the stream to onChunk
StreamChunk ==
  /\ fetch.pc = "streaming"
  /\ Len(SelectSeq(fetch.events,
                   LAMBDA e : e.kind = "chunk" /\ e.chunk.type \in StreamChunkTypes))
       < MaxStreamChunks
  /\ \E type \in StreamChunkTypes :
       fetch' = [fetch EXCEPT !.events = Append(@, Delivered(Chunk(type)))]
  /\ UNCHANGED <<toolCallIdCache, cacheWriter, calls, sdkParam, mcp>>

\* the awaited completion resolves: the try block ends and the function returns
CompletionsResolved ==
  /\ fetch.pc = "streaming"
  /\ fetch' = [fetch EXCEPT !.pc = "returned"]
  /\ UNCHANGED <<toolCallIdCache, cacheWriter, calls, sdkParam, mcp>>

\* the catch block without onChunkReceived({ type: ChunkType.ERROR, error })
CompletionsRejected_noErrorChunk ==
  /\ fetch.pc = "streaming"
  /\ \E error \in Errors :
       fetch' = [fetch EXCEPT !.pc = "threw", !.failed = "AI.completions",
                              !.thrown = error]
  /\ UNCHANGED <<toolCallIdCache, cacheWriter, calls, sdkParam, mcp>>

\* the awaited completion rejects: catch (error) { logger.error(...);
\* onChunkReceived({ type: ChunkType.ERROR, error }); throw error }
CompletionsRejected ==
  /\ fetch.pc = "streaming"
  /\ \E error \in Errors :
       fetch' = [fetch EXCEPT !.pc = "threw", !.failed = "AI.completions",
                              !.events = Append(@, Delivered(ErrorChunk(error))),
                              !.thrown = error]
  /\ UNCHANGED <<toolCallIdCache, cacheWriter, calls, sdkParam, mcp>>

NextFetch ==
  \/ FetchChatCompletion
  \/ FetchAssistantMcpTools
  \/ BuildStreamTextParams
  \/ Completions
  \/ StreamChunk
  \/ CompletionsResolved
  \/ CompletionsRejected

SpecFetch == Init /\ [][NextFetch]_vars

(***************************************************************************)
(* part_001: convertMessagesToSdkMessages.  Calls overlap at their await   *)
(* points; between two awaits a call runs alone.  The tool parts of one    *)
(* message, and with them every cache access for that message, are made in *)
(* one synchronous run of convertMessageToAssistantModelMessage or         *)
(* convertMessageToToolModelMessage.                                       *)
(***************************************************************************)
\* the blocks of the block store that the conversations of Spec refer to
StoreBlocks ==
  {ToolBlock(BlockId(1), Undefined, Str("my_tool"),
             Obj(<<[k |-> "query", q |-> TRUE, v |-> "search term"]>>), Str("result")),
   ToolBlock(BlockId(2), Str("call_abc123"), Str("my_tool"), Undefined, Str("result"))}

StoreMessages == {Message(r, "", <<>>, <<b>>, <<>>, <<>>) : r \in ToolRoles, b \in StoreBlocks}

MessageLists == UNION {[1..n -> StoreMessages] : n \in 1..MaxMessages}

\* the model these calls are made with: a text model
CallModel == Model(FALSE, FALSE)

\* convertMessagesToSdkMessages(messages, model) is called
Start(c) ==
  /\ calls[c].status = "idle"
  /\ \E messages \in MessageLists :
       calls' = [calls EXCEPT ![c] = [IdleCall EXCEPT !.status = "running",
                                                      !.messages = messages]]
  /\ UNCHANGED <<toolCallIdCache, cacheWriter, sdkParam>>
  /\ UNCHANGED <<mcp, fetch>>

\* one iteration of the loop: sdkMessages.push(await convertMessageToSdkParam(...))
ConvertNextMessage(c) ==
  /\ calls[c].status = "running"
  /\ calls[c].idx < Len(calls[c].messages)
  /\ LET message == calls[c].messages[calls[c].idx + 1]
     IN \E r \in convertMessageToSdkParam_cached(message, isVisionModel(CallModel),
                                                 CallModel,
                                                 CacheState(toolCallIdCache)) :
          LET derived == DerivedIdParts(message, r.result)
              hits == r.cs.reads \ r.cs.writes
          IN /\ toolCallIdCache' = r.cs.cache
             /\ cacheWriter' = WritersAfter(c, r.cs)
             /\ calls' = [calls EXCEPT
                  ![c].idx = @ + 1,
                  ![c].sdkMessages = Append(@, r.result),
                  ![c].ids = @ \cup {[blockId |-> p.blockId, id |-> p.toolCallId] :
                                       p \in derived},
                  ![c].foreign = @ \cup {p.blockId : p \in
                                   {q \in derived : /\ q.blockId \in hits
                                                    /\ cacheWriter[q.blockId] # c}}]
  /\ UNCHANGED sdkParam
  /\ UNCHANGED <<mcp, fetch>>

\* Throw with the cache cleared after the try block instead of in finally
Throw_withoutFinally(c) ==
  /\ calls[c].status = "running"
  /\ calls' = [calls EXCEPT ![c].status = "threw", ![c].sdkMessages = <<>>]
  /\ UNCHANGED <<toolCallIdCache, cacheWriter, sdkParam>>
  /\ UNCHANGED <<mcp, fetch>>

\* an awaited step rejects (a block extractor, a file or image read, the image
\* blocks of the image-enhancement pass) or that pass throws: the exception
\* leaves the call through finally { clearToolCallIdCache() }
Throw(c) ==
  /\ calls[c].status = "running"
  /\ calls' = [calls EXCEPT ![c].status = "threw", ![c].sdkMessages = <<>>]
  /\ toolCallIdCache' = clearToolCallIdCache(toolCallIdCache)
  /\ cacheWriter' = [b \in {} |-> DirectCaller]
  /\ UNCHANGED sdkParam
  /\ UNCHANGED <<mcp, fetch>>

\* return sdkMessages (the image-enhancement pass is not for CallModel),
\* through finally { clearToolCallIdCache() }
Return(c) ==
  /\ calls[c].status = "running"
  /\ calls[c].idx = Len(calls[c].messages)
  /\ ~isImageEnhancementModel(CallModel)
  /\ calls' = [calls EXCEPT ![c].status = "returned"]
  /\ toolCallIdCache' = clearToolCallIdCache(toolCallIdCache)
  /\ cacheWriter' = [b \in {} |-> DirectCaller]
  /\ UNCHANGED sdkParam
  /\ UNCHANGED <<mcp, fetch>>

\* the exported clearToolCallIdCache() is called
ClearToolCallIdCache ==
  /\ toolCallIdCache' = clearToolCallIdCache(toolCallIdCache)
  /\ cacheWriter' = [b \in {} |-> DirectCaller]
  /\ UNCHANGED <<calls, sdkParam>>
  /\ UNCHANGED <<mcp, fetch>>

Next ==
  \/ \E c \in Calls : Start(c)
  \/ \E c \in Calls : ConvertNextMessage(c)
  \/ \E c \in Calls : Throw(c)
  \/ \E c \in Calls : Return(c)
  \/ ConvertMessageToSdkParamCached(StoreMessages, {FALSE}, {Undefined}, FALSE)
  \/ ClearToolCallIdCache

Spec == Init /\ [][Next]_vars

\* the top-level calls alone: nobody calls the other exports
NextCalls ==
  \/ \E c \in Calls : Start(c)
  \/ \E c \in Calls : ConvertNextMessage(c)
  \/ \E c \in Calls : Throw(c)
  \/ \E c \in Calls : Return(c)

SpecCalls == Init /\ [][NextCalls]_vars

(***************************************************************************)
(* Properties.                                                             *)
(***************************************************************************)
Converted == sdkParam # NoResult

\* the positions of the tool parts of the compiled message made from block b
PartsOf(b) ==
  {j \in DOMAIN sdkParam.result.content :
     /\ IsToolPart(sdkParam.result.content[j])
     /\ sdkParam.result.content[j].blockId = b.id}

\* C1: in a compiled assistant message every tool-result part is preceded by a
\* tool-call part with the same toolCallId.
C1_CallBeforeResult ==
  (Converted /\ sdkParam.result.role = "assistant") =>
    LET content == sdkParam.result.content
    IN \A j \in DOMAIN content :
         content[j].type = "tool-result" =>
           \E i \in 1..(j - 1) : /\ content[i].type = "tool-call"
                                 /\ content[i].toolCallId = content[j].toolCallId

\* C2: every tool part made from a block whose toolId is set (a non-empty
\* string) carries that toolId as its toolCallId, and the conversion neither
\* looks the block up in the cache nor sets an entry for it.
C2_ToolIdPassthrough ==
  Converted =>
    \A b \in Range(sdkParam.message.tools) :
      Truthy(b.toolId) =>
        /\ \A j \in PartsOf(b) : sdkParam.result.content[j].toolCallId = b.toolId
        /\ b.id \notin sdkParam.reads \cup sdkParam.writes

\* a tool-role message of part_001 with a result for a block with toolId, next
\* to a block without toolId whose id was generated and cached
C2_Witness ==
  /\ Converted
  /\ sdkParam.variant = "cached"
  /\ sdkParam.message.role = "tool"
  /\ sdkParam.writes # {}
  /\ \E b \in Range(sdkParam.message.tools) : Truthy(b.toolId) /\ PartsOf(b) # {}

\* C3: within one convertMessagesToSdkMessages call, every part made from the
\* same block without toolId carries the same derived toolCallId.
C3_StableWithinCall ==
  \A c \in Calls :
    \A x \in calls[c].ids : \A y \in calls[c].ids :
      x.blockId = y.blockId => x.id = y.id

\* /^tool_\d+_[a-z0-9]+$/, over the timestamps and suffixes of the model
IsGeneratedForm(v) ==
  /\ v.t = "string"
  /\ \E now \in 1..MaxNow : \E r \in RandomSuffixes \ {""} :
       v.s = "tool_" \o ToString(now) \o "_" \o r

\* C4: no emitted tool part has an undefined or empty toolCallId, and a part
\* made from a block without toolId carries a generated id tool_<digits>_<alnum>.
C4_GeneratedIdDefined ==
  Converted =>
    \A b \in Range(sdkParam.message.tools) : \A j \in PartsOf(b) :
      LET id == sdkParam.result.content[j].toolCallId
      IN /\ id.t = "string" /\ id.s # ""
         /\ b.toolId = Undefined => IsGeneratedForm(id)

\* C5: the step by which a convertMessagesToSdkMessages call finishes, by
\* returning or by throwing, leaves the cache empty.
C5_CacheReleasedOnCompletion ==
  [][\A c \in Calls :
       (calls[c].status = "running" /\ calls'[c].status \in {"returned", "threw"})
         => DOMAIN toolCallIdCache' = {}]_vars

\* one call has returned and another has thrown, each after caching an id
C5_Witness ==
  \E c \in Calls : \E d \in Calls :
    /\ calls[c].status = "returned" /\ calls[c].ids # {}
    /\ calls[d].status = "threw" /\ calls[d].ids # {}
    /\ DOMAIN toolCallIdCache = {}

\* C6: with overlapping calls, each call derives one id per block without
\* toolId, and no call is handed an id that another call put into the cache.
C6_IsolatedUnderOverlap ==
  \A c \in Calls :
    /\ \A x \in calls[c].ids : \A y \in calls[c].ids :
         x.blockId = y.blockId => x.id = y.id
    /\ calls[c].foreign = {}

\* C7: the cache is empty whenever no convertMessagesToSdkMessages call is in
\* progress.
C7_CacheEmptyOutsideCompilation ==
  (\A c \in Calls : calls[c].status # "running") => DOMAIN toolCallIdCache = {}

\* C8: in part_001 (one part per block) an assistant message gets, for a block
\* with content and arguments, exactly one part, a tool-result.
C8_OnePartPrefersResult ==
  (Converted /\ sdkParam.variant = "cached" /\ sdkParam.message.role = "assistant") =>
    \A b \in Range(sdkParam.message.tools) :
      (~IsNullish(b.content) /\ ~IsNullish(b.arguments)) =>
        /\ Cardinality(PartsOf(b)) = 1
        /\ \A j \in PartsOf(b) : sdkParam.result.content[j].type = "tool-result"

\* an assistant message of part_001 with a block that has content and non-empty
\* arguments, and with its result part
C8_Witness ==
  /\ Converted
  /\ sdkParam.variant = "cached"
  /\ sdkParam.message.role = "assistant"
  /\ \E b \in Range(sdkParam.message.tools) :
       /\ ~IsNullish(b.content)
       /\ Truthy(b.arguments) /\ ObjectKeysLength(b.arguments) > 0
       /\ PartsOf(b) # {}

\* C9: in an assistant message a block without content gives exactly one
\* tool-call, with the arguments as input, when its arguments are non-empty,
\* and no part when they are absent or empty.
C9_NoContentBlocks ==
  (Converted /\ sdkParam.message.role = "assistant") =>
    \A b \in Range(sdkParam.message.tools) :
      IsNullish(b.content) =>
        IF Truthy(b.arguments) /\ ObjectKeysLength(b.arguments) > 0
        THEN /\ Cardinality(PartsOf(b)) = 1
             /\ \A j \in PartsOf(b) :
                  /\ sdkParam.result.content[j].type = "tool-call"
                  /\ sdkParam.result.content[j].input = b.arguments
        ELSE PartsOf(b) = {}

\* C10: the output of a tool-result is a string: the content when that is a
\* string, its JSON text otherwise.
C10_ResultOutputIsString ==
  Converted =>
    \A b \in Range(sdkParam.message.tools) : \A j \in PartsOf(b) :
      LET p == sdkParam.result.content[j]
      IN (p.type = "tool-result" /\ ~IsNullish(b.content)) =>
           /\ IsString(p.output)
           /\ p.output.s = IF b.content.t = "string" THEN b.content.s
                           ELSE JSONstringify(b.content)

\* the blocks of a list that have content (neither undefined nor null)
BlocksWithContent(toolBlocks) == SelectSeq(toolBlocks, LAMBDA b : ~IsNullish(b.content))

\* C11: a tool-role message compiles to one message with role tool whose parts
\* are tool-results, one per block with content and in block order; a block
\* without content gives no part.
C11_ToolRoleResultsOnly ==
  (Converted /\ sdkParam.message.role = "tool") =>
    LET result == sdkParam.result
        withContent == BlocksWithContent(sdkParam.message.tools)
    IN /\ result.role = "tool"
       /\ \A j \in DOMAIN result.content : result.content[j].type = "tool-result"
       /\ [j \in DOMAIN result.content |-> result.content[j].blockId]
            = [j \in DOMAIN withContent |-> withContent[j].id]

\* the messages of a conversion's outcome: none when it threw
ResultMessages(result) ==
  IF IsThrow(result) THEN <<>>
  ELSE IF IsArray(result) THEN result.array ELSE <<result>>

\* the parts of a compiled message: none when its content is a string
ContentParts(message) == IF HasStringContent(message) THEN <<>> ELSE message.content

\* C12: a user or system message never compiles to a message with a tool-call
\* or tool-result part, whatever its tool blocks.
C12_NoToolPartsForUserSystem ==
  (Converted /\ sdkParam.message.role \in {"user", "system"}) =>
    \A m \in Range(ResultMessages(sdkParam.result)) :
      \A p \in Range(ContentParts(m)) : ~IsToolPart(p)

\* a user message with tool blocks, compiled to a message with parts
C12_Witness ==
  /\ Converted
  /\ sdkParam.message.role = "user"
  /\ sdkParam.message.tools # <<>>
  /\ \E m \in Range(ResultMessages(sdkParam.result)) : ContentParts(m) # <<>>

\* the position of the first file block whose native part is a handle, 0 if none
FirstHandle(fileBlocks) ==
  LET handles == {i \in DOMAIN fileBlocks : fileBlocks[i].native = "handle"}
  IN IF handles = {} THEN 0 ELSE CHOOSE i \in handles : \A j \in handles : i <= j

\* C17: with a model, a user or system message one of whose file blocks gets a
\* handle (fileid://...) from the native attempt compiles to exactly two
\* messages: a system message whose content is the handle, then a user message
\* with the parts accumulated before that block, or with the content '' when
\* there are none; an assistant message never compiles to such a split.
C17_HandleSplit ==
  (Converted /\ ~IsThrow(sdkParam.result)) =>
    LET message == sdkParam.message
        result == sdkParam.result
        k == FirstHandle(message.files)
        before == convertMessageToUserModelMessage(
                    message.content, SubSeq(message.files, 1, k - 1),
                    message.images, sdkParam.isVision, sdkParam.model).content
    IN /\ (message.role \in {"user", "system"} /\ sdkParam.model # Undefined /\ k > 0)
            => /\ IsArray(result)
               /\ Len(result.array) = 2
               /\ result.array[1] = StringMessage("system", "fileid://" \o message.files[k].id)
               /\ result.array[2] = IF before = <<>> THEN StringMessage("user", "")
                                    ELSE ModelMessage("user", before)
       /\ message.role = "assistant" => ~IsArray(result)

\* a user message whose second file block gets a handle, after a first block
\* that became a part, and an assistant message with such a block
C17_Witness ==
  /\ Converted
  /\ sdkParam.message.role = "user"
  /\ sdkParam.model # Undefined
  /\ FirstHandle(sdkParam.message.files) = 2
  /\ IsArray(sdkParam.result)
  /\ ~HasStringContent(sdkParam.result.array[2])

Replayed == Converted /\ sdkParam.variant = "replay"

\* the invocation records of the source message, in block order
SourceRecords ==
  SelectSeq([i \in DOMAIN sdkParam.message.tools |->
               sdkParam.message.tools[i].rawMcpToolResponse],
            LAMBDA tr : tr # Undefined)

IsProviderRecord(tr) == tr.tool # Undefined /\ tr.tool.type = "provider"

\* the tool parts of the compiled messages, in emission order
RECURSIVE ToolPartsOfMessages(_, _)
ToolPartsOfMessages(messages, i) ==
  IF i > Len(messages) THEN <<>>
  ELSE SelectSeq(ContentParts(messages[i]), IsToolPart)
         \o ToolPartsOfMessages(messages, i + 1)

BlockIdsOf(parts) == [j \in DOMAIN parts |-> parts[j].blockId]

\* C13: the tool blocks of one assistant message give at most one assistant
\* message with all the tool-call parts and at most one tool message with the
\* tool-result parts of exactly the records whose status is done, error or
\* cancelled; the tool message comes immediately after that assistant message,
\* and its results follow the order of the calls and carry their toolCallIds.
C13_ReplayGrouping ==
  Replayed =>
    LET out == ResultMessages(sdkParam.result)
        callMsgs == {i \in DOMAIN out :
                       \E p \in Range(out[i].content) : p.type = "tool-call"}
        resultMsgs == {i \in DOMAIN out :
                         \E p \in Range(out[i].content) : p.type = "tool-result"}
        toolParts == ToolPartsOfMessages(out, 1)
        callParts == SelectSeq(toolParts, LAMBDA p : p.type = "tool-call")
        resultParts == SelectSeq(toolParts, LAMBDA p : p.type = "tool-result")
        terminalCalls ==
          SelectSeq(callParts,
                    LAMBDA p : \E tr \in Range(SourceRecords) :
                                 /\ tr.blockId = p.blockId
                                 /\ tr.status \in {"done", "error", "cancelled"})
    IN /\ Cardinality(callMsgs) <= 1
       /\ Cardinality(resultMsgs) <= 1
       /\ \A i \in callMsgs :
            /\ out[i].role = "assistant"
            /\ \A p \in Range(out[i].content) : p.type = "tool-call"
       /\ \A i \in resultMsgs :
            /\ out[i].role = "tool"
            /\ \A p \in Range(out[i].content) : p.type = "tool-result"
            /\ i - 1 \in callMsgs
       /\ BlockIdsOf(resultParts) = BlockIdsOf(terminalCalls)
       /\ \A j \in DOMAIN resultParts :
            resultParts[j].toolCallId = terminalCalls[j].toolCallId

\* two records, the first pending and the second done: two calls, one result
C13_Witness ==
  /\ Replayed
  /\ Len(SourceRecords) = 2
  /\ SourceRecords[1].status = "pending" /\ SourceRecords[2].status = "done"
  /\ Len(ResultMessages(sdkParam.result)) >= 2
  /\ Len(ResultMessages(sdkParam.result)[1].content) = 2
  /\ Len(ResultMessages(sdkParam.result)[2].content) = 1

\* C14: a record whose tool type is provider gives neither a tool-call nor a
\* tool-result part, the other records are replayed, and a message whose records
\* are all provider-executed gives no tool-history message.
C14_ProviderNotReplayed ==
  Replayed =>
    LET out == ResultMessages(sdkParam.result)
        toolParts == ToolPartsOfMessages(out, 1)
    IN /\ \A tr \in Range(SourceRecords) :
            IF IsProviderRecord(tr)
            THEN \A p \in Range(toolParts) : p.blockId # tr.blockId
            ELSE \E p \in Range(toolParts) : p.blockId = tr.blockId /\ p.type = "tool-call"
       /\ (\A tr \in Range(SourceRecords) : IsProviderRecord(tr))
            => /\ toolParts = <<>>
               /\ ~IsArray(sdkParam.result)

\* a provider-executed record with status done next to a replayed record
C14_Witness ==
  /\ Replayed
  /\ \E tr \in Range(SourceRecords) : IsProviderRecord(tr) /\ tr.status = "done"
  /\ ToolPartsOfMessages(ResultMessages(sdkParam.result), 1) # <<>>

\* C15: the output of a replayed result is tagged error-text for the statuses
\* error and cancelled and text for done; its value is 'cancelled' for a
\* cancelled record without response (undefined or null), and otherwise the
\* response: itself when a string, JSON.stringify of it when not.
C15_ReplayOutput ==
  Replayed =>
    \A p \in Range(ToolPartsOfMessages(ResultMessages(sdkParam.result), 1)) :
      p.type = "tool-result" =>
        \A tr \in Range(SourceRecords) :
          tr.blockId = p.blockId =>
            /\ p.output.type = IF tr.status \in {"error", "cancelled"} THEN "error-text"
                               ELSE "text"
            /\ tr.status = "done" => p.output.type = "text"
            /\ p.output.value =
                 IF tr.status = "cancelled" /\ IsNullish(tr.response) THEN Str("cancelled")
                 ELSE IF tr.response.t = "string" THEN tr.response
                 ELSE JSONstringifyValue(tr.response)

\* a cancelled record without response next to an error record with a string
\* response, both replayed
C15_Witness ==
  /\ Replayed
  /\ Len(SourceRecords) = 2
  /\ SourceRecords[1].status = "cancelled" /\ SourceRecords[1].response = Null
  /\ SourceRecords[2].status = "error" /\ SourceRecords[2].response = Str("result")
  /\ Len(SelectSeq(ToolPartsOfMessages(ResultMessages(sdkParam.result), 1),
                   LAMBDA p : p.type = "tool-result")) = 2

\* C16: an assistant message compiles to the single assistant message when
\* there is no tool history, to the tool-history messages followed by the
\* assistant message when that has a part, and to the tool-history messages
\* alone when it has none.
C16_ReplayReturnShape ==
  Replayed =>
    LET message == sdkParam.message
        history == buildToolHistoryMessages(message.tools)
        parts == TextParts(message.content) \o ReasoningParts(message.thinking)
                   \o AssistantFileParts(message.files, 1, sdkParam.model)
        assistantMessage == ModelMessage("assistant", parts)
    IN IF history = <<>> THEN sdkParam.result = assistantMessage
       ELSE IF parts # <<>>
       THEN sdkParam.result = Array(history \o <<assistantMessage>>)
       ELSE /\ sdkParam.result = Array(history)
            /\ \A m \in Range(sdkParam.result.array) : m.content # <<>>

\* an assistant message without text and reasoning whose record is replayed:
\* the tool history alone
C16_Witness ==
  /\ Replayed
  /\ sdkParam.message.content = "" /\ sdkParam.message.thinking = <<>>
  /\ IsArray(sdkParam.result)
  /\ Len(sdkParam.result.array) = 2

Compiled == sdkParam # NoResult /\ "messages" \in DOMAIN sdkParam

IsMessage(m) == "role" \in DOMAIN m /\ m.role \in {"system", "user", "assistant", "tool"}

\* a part made from a file block: a file part or an extracted text
IsFileDerived(p) == p.type = "file" \/ (p.type = "text" /\ "blockId" \in DOMAIN p)

\* C20: convertMessagesToSdkMessages completes without throwing for every
\* message list and model, and every element of the returned sequence is a
\* message with a role among system, user, assistant and tool.
C20_WellFormedResult ==
  Compiled =>
    /\ ~IsThrow(sdkParam.result)
    /\ \A m \in Range(sdkParam.result.array) : IsMessage(m)

\* C18: for a model that is not vision-capable no returned user message has an
\* image part, whatever the image-enhancement flag; for a vision-capable model
\* the image parts of a user message come after its text part and before its
\* file-derived parts.
C18_VisionGating ==
  (Compiled /\ ~IsThrow(sdkParam.result)) =>
    \A m \in Range(sdkParam.result.array) :
      (IsMessage(m) /\ m.role = "user") =>
        LET parts == ContentParts(m)
        IN /\ ~isVisionModel(sdkParam.model)
               => \A p \in Range(parts) : p.type # "image"
           /\ isVisionModel(sdkParam.model)
               => \A i \in DOMAIN parts : \A j \in DOMAIN parts :
                    (i < j /\ parts[j].type = "image")
                      => ~IsFileDerived(parts[i])

\* the handle messages that the split of a source message puts into the output
RECURSIVE SystemMessagesOf(_, _)
SystemMessagesOf(messages, i) ==
  IF i > Len(messages) THEN <<>>
  ELSE (IF messages[i].role \in {"user", "system"} /\ FirstHandle(messages[i].files) > 0
        THEN <<StringMessage("system",
                 "fileid://" \o messages[i].files[FirstHandle(messages[i].files)].id)>>
        ELSE <<>>)
       \o SystemMessagesOf(messages, i + 1)

\* C19: for an image-enhancement model and at least 3 messages ending with an
\* assistant message and a user message, the result is the first system
\* message of the compiled output, if any, then the compiled assistant message,
\* then the compiled user message, whose parts are its own parts followed by
\* one image part per image block of the assistant source message, in order.
C19_EnhancementOverride ==
  (/\ Compiled
   /\ isImageEnhancementModel(sdkParam.model)
   /\ Len(sdkParam.messages) >= 3
   /\ sdkParam.messages[Len(sdkParam.messages) - 1].role = "assistant"
   /\ sdkParam.messages[Len(sdkParam.messages)].role = "user") =>
    LET messages == sdkParam.messages
        assistant == messages[Len(messages) - 1]
        user == messages[Len(messages)]
        systems == SystemMessagesOf(messages, 1)
        own == convertMessageToUserModelMessage(user.content, user.files, user.images,
                                                isVisionModel(sdkParam.model),
                                                sdkParam.model)
        ownParts == LET m == ResultMessages(own)[Len(ResultMessages(own))]
                    IN IF HasStringContent(m) THEN <<TextPart(m.text)>> ELSE m.content
    IN /\ ~IsThrow(sdkParam.result)
       /\ LET out == sdkParam.result.array
              n == Len(out)
          IN /\ n = IF systems = <<>> THEN 2 ELSE 3
             /\ systems # <<>> => out[1] = systems[1]
             /\ IsMessage(out[n - 1]) /\ out[n - 1].role = "assistant"
             /\ IsMessage(out[n]) /\ out[n].role = "user"
             /\ Len(out[n].content) = Len(ownParts) + Len(assistant.images)
             /\ SubSeq(out[n].content, 1, Len(ownParts)) = ownParts
             /\ \A j \in DOMAIN assistant.images :
                  LET p == out[n].content[Len(ownParts) + j]
                  IN p.type = "image" /\ p.blockId = assistant.images[j].id

\* the compiled outputs of one source message in the revision that ran
CompiledOutputs(variant, message, model) ==
  IF variant = "pairing"
  THEN {convertMessageToSdkParam(message, isVisionModel(model), model)}
  ELSE IF variant = "replay"
  THEN {convertMessageToSdkParam_replay(message, isVisionModel(model), model)}
  ELSE {r.result : r \in convertMessageToSdkParam_cached(
                            message, isVisionModel(model), model,
                            CacheState(EmptyCache))}

\* the elements of the outputs outs[i..], a list output giving all its elements
RECURSIVE Concatenation(_, _)
Concatenation(outs, i) ==
  IF i > Len(outs) THEN <<>>
  ELSE ResultMessages(outs[i]) \o Concatenation(outs, i + 1)

IsParsableDataUrl(url) == url.data /\ url.base64 /\ url.payload # ""

\* the image blocks that give a part: a readable file, a parsable data: URL, a
\* URL that does not start with data:
YieldingImageBlocks(imageBlocks) ==
  SelectSeq(imageBlocks,
            LAMBDA b : IF b.file # NoImageFile THEN b.file.readable
                       ELSE UrlText(b.url) # "" /\ (b.url.data => IsParsableDataUrl(b.url)))

\* the image parts among the parts of the compiled messages, in order
RECURSIVE ImagePartsOfMessages(_, _)
ImagePartsOfMessages(messages, i) ==
  IF i > Len(messages) THEN <<>>
  ELSE SelectSeq(ContentParts(messages[i]), LAMBDA p : p.type = "image")
         \o ImagePartsOfMessages(messages, i + 1)

\* C22: the image materializer gives zero or one image part per image block, in
\* block order, and never aborts the compilation: an unreadable file and a data:
\* URL that is not data:<mime>;base64,<payload> are dropped, a missing mime
\* defaults to image/png, and a URL that does not start with data: is passed on
\* unchanged.
C22_ImagesNeverAbort ==
  (/\ Converted
   /\ sdkParam.message.role \in {"user", "system"}
   /\ sdkParam.isVision) =>
    LET yielding == YieldingImageBlocks(sdkParam.message.images)
        parts == ImagePartsOfMessages(ResultMessages(sdkParam.result), 1)
    IN /\ ~IsThrow(sdkParam.result)
       /\ Len(parts) = Len(yielding)
       /\ \A j \in DOMAIN parts :
            /\ parts[j].blockId = yielding[j].id
            /\ (yielding[j].file = NoImageFile /\ ~yielding[j].url.data)
                 => parts[j].image = Str(UrlText(yielding[j].url))
            /\ (yielding[j].file = NoImageFile /\ yielding[j].url.data)
                 => /\ parts[j].image = Str(yielding[j].url.payload)
                    /\ parts[j].mediaType = IF yielding[j].url.mime = ""
                                            THEN Str("image/png")
                                            ELSE Str(yielding[j].url.mime)

\* the file-derived parts made from block b among the compiled messages
RECURSIVE FilePartsOf(_, _, _)
FilePartsOf(b, messages, i) ==
  IF i > Len(messages) THEN <<>>
  ELSE SelectSeq(ContentParts(messages[i]),
                 LAMBDA p : IsFileDerived(p) /\ p.blockId = b.id)
         \o FilePartsOf(b, messages, i + 1)

\* whether the conversion called fn of fileProcessor for block b
Called(fn, b) == \E c \in Range(sdkParam.fileCalls) : c.fn = fn /\ c.block = b.id

\* C23: each file block contributes at most one part: the native part when a
\* model is supplied and the native attempt returns one (in the user path a
\* handle goes into the system message instead), otherwise the extracted text
\* when the extraction returns one, otherwise nothing.  The native attempt is
\* not made without a model, and no text is extracted for a block whose native
\* attempt returned a part.
C23_TwoTierFilePolicy ==
  (Converted /\ ~IsThrow(sdkParam.result)) =>
    \A k \in DOMAIN sdkParam.message.files :
      LET b == sdkParam.message.files[k]
          messages == ResultMessages(sdkParam.result)
          parts == FilePartsOf(b, messages, 1)
          nativeCalled == Called("convertFileBlockToFilePart", b)
          textCalled == Called("convertFileBlockToTextPart", b)
          native == convertFileBlockToFilePart(b, sdkParam.model)
          text == convertFileBlockToTextPart(b)
          userPath == sdkParam.message.role \in {"user", "system"}
      IN /\ Len(parts) <= 1
         /\ nativeCalled => sdkParam.model # Undefined
         /\ (nativeCalled /\ native # Null)
              => /\ ~textCalled
                 /\ IF userPath /\ IsHandle(native.data)
                    THEN /\ parts = <<>>
                         /\ messages[1] = StringMessage("system",
                                            native.data.prefix \o native.data.rest)
                    ELSE parts = <<native>>
         /\ (~(nativeCalled /\ native # Null) /\ textCalled /\ text # Null)
              => parts = <<text>>
         /\ (~(nativeCalled /\ native # Null) /\ ~(textCalled /\ text # Null))
              => parts = <<>>
         /\ sdkParam.message.role = "assistant"
              => /\ nativeCalled <=> sdkParam.model # Undefined
                 /\ textCalled <=> ~(nativeCalled /\ native # Null)

\* C23 witness: an assistant message compiled with a model, with a file block
\* that gave its native part and a file block that fell back to its text
C23_Witness ==
  /\ Converted
  /\ sdkParam.message.role = "assistant"
  /\ sdkParam.model # Undefined
  /\ Len(sdkParam.message.files) = 2
  /\ sdkParam.message.files[1].native = "inline"
  /\ sdkParam.message.files[1].text # ""
  /\ sdkParam.message.files[2].native = "none"
  /\ sdkParam.message.files[2].text # ""
  /\ Len(SelectSeq(sdkParam.result.content, IsFileDerived)) = 2

\* the place of a part in the order text, reasoning, tool, file-derived
PartRank(p) ==
  IF IsFileDerived(p) THEN 4
  ELSE IF IsToolPart(p) THEN 3
  ELSE IF p.type = "reasoning" THEN 2
  ELSE 1

\* C24: in a compiled assistant message the parts come in the order text (when
\* the text is not empty), reasoning parts, tool parts, file-derived parts, each
\* group in block order; no tool part follows a file-derived part.
C24_AssistantPartOrder ==
  (Converted /\ sdkParam.message.role = "assistant") =>
    \A m \in Range(ResultMessages(sdkParam.result)) :
      m.role = "assistant" =>
        LET parts == ContentParts(m)
        IN /\ \A i \in DOMAIN parts : \A j \in DOMAIN parts :
                i < j => PartRank(parts[i]) <= PartRank(parts[j])
           /\ sdkParam.message.content # ""
                => parts # <<>> /\ parts[1] = TextPart(sdkParam.message.content)
           /\ SelectSeq(parts, LAMBDA p : p.type = "reasoning")
                = ReasoningParts(sdkParam.message.thinking)
           /\ SelectSeq(parts, IsFileDerived)
                = AssistantFileParts(sdkParam.message.files, 1, sdkParam.model)

\* the tool parts of the compiled messages of a conversion
ToolPartsOfResult == ToolPartsOfMessages(ResultMessages(sdkParam.result), 1)

\* C25: every emitted tool-call and tool-result part has a defined toolName: the
\* name of its block or record when there is one, a fixed sentinel otherwise.
C25_ToolNameDefined ==
  Converted => \A p \in Range(ToolPartsOfResult) : ~IsNullish(p.toolName)

\* C26: an assistant message with thinking blocks, an empty main text, no tool
\* block and no file block compiles to one assistant message whose parts are one
\* reasoning part per thinking block, with the content of the block and in
\* block order, and no text part.
C26_ReasoningOnly ==
  (/\ Converted
   /\ sdkParam.message.role = "assistant"
   /\ sdkParam.message.content = ""
   /\ sdkParam.message.thinking # <<>>
   /\ sdkParam.message.tools = <<>>
   /\ sdkParam.message.files = <<>>) =>
    sdkParam.result =
      [role |-> "assistant",
       content |-> [i \in DOMAIN sdkParam.message.thinking |->
                      [type |-> "reasoning", text |-> sdkParam.message.thinking[i]]]]

\* C26 witness: such a message with two different thinking blocks, compiled by
\* the history-replay revision
C26_Witness ==
  /\ Converted
  /\ sdkParam.variant = "replay"
  /\ sdkParam.message.content = ""
  /\ sdkParam.message.tools = <<>>
  /\ sdkParam.message.files = <<>>
  /\ Len(sdkParam.message.thinking) = 2
  /\ sdkParam.message.thinking[1] # sdkParam.message.thinking[2]
  /\ Len(sdkParam.result.content) = 2

\* the seconds that the configured timeout t stands for: t held to [5, 3600]
ClampedSeconds(t) == IF t < 5 THEN 5 ELSE IF t > 3600 THEN 3600 ELSE t

\* C27: getClient creates the transport with a timeout, in milliseconds, of 1000
\* times the configured timeout in seconds held to [5, 3600], and of 300
\* seconds when none is configured; 5 and 3600 are passed unchanged, and the
\* headers and the auth provider are passed alongside.
C27_TransportTimeout ==
  \A g \in Range(mcp.gets) :
    g.transport > 0 =>
      LET options == mcp.transports[g.transport].options
      IN /\ options.timeout =
              IF "timeout" \in DOMAIN g.server
              THEN 1000 * ClampedSeconds(g.server.timeout)
              ELSE 300 * 1000
         /\ ("timeout" \in DOMAIN g.server /\ g.server.timeout \in {5, 3600})
              => options.timeout = 1000 * g.server.timeout
         /\ "headers" \in DOMAIN g.server
              => options.requestInit.headers = g.server.headers
         /\ "authProvider" \in DOMAIN options
         /\ mcp.transports[g.transport].url = g.server.baseUrl

\* C27 witness: transports were created for a timeout below 5, for one above
\* 3600 and for a configuration without timeout
C27_Witness ==
  /\ \E g \in Range(mcp.gets) : g.transport > 0 /\ "timeout" \notin DOMAIN g.server
  /\ \E g \in Range(mcp.gets) :
       g.transport > 0 /\ "timeout" \in DOMAIN g.server /\ g.server.timeout < 5
  /\ \E g \in Range(mcp.gets) :
       g.transport > 0 /\ "timeout" \in DOMAIN g.server /\ g.server.timeout > 3600

\* C28: a getClient call with a configuration equal to that of an earlier call
\* returns the client of that call and creates no transport; a call with a
\* configuration that no earlier call had creates a new transport.
C28_ClientCaching ==
  \A j \in DOMAIN mcp.gets :
    LET earlier == {i \in 1..(j - 1) : mcp.gets[i].server = mcp.gets[j].server}
    IN /\ \A i \in earlier :
            /\ mcp.gets[j].client = mcp.gets[i].client
            /\ mcp.gets[j].transport = 0
       /\ earlier = {} =>
            /\ mcp.gets[j].transport = Cardinality({i \in 1..j : mcp.gets[i].transport > 0})
            /\ \A i \in 1..(j - 1) : mcp.gets[i].client # mcp.gets[j].client
       /\ Len(mcp.transports) = Cardinality({i \in DOMAIN mcp.gets :
                                               mcp.gets[i].transport > 0})

\* C28 witness: a configuration, then the same with another timeout, then the
\* first again, with two transports in all
C28_Witness ==
  /\ Len(mcp.gets) = 3
  /\ mcp.gets[1].server = mcp.gets[3].server
  /\ mcp.gets[1].server # mcp.gets[2].server
  /\ mcp.gets[1].server.id = mcp.gets[2].server.id
  /\ mcp.gets[3].client = mcp.gets[1].client
  /\ Len(mcp.transports) = 2

\* whether the ids of the records of seq, taken by idOf, follow the order of the
\* file blocks
InBlockOrder(seq, idOf(_), fileBlocks) ==
  \A i \in DOMAIN seq : \A j \in DOMAIN seq :
    i < j => \E a \in DOMAIN fileBlocks : \E b \in DOMAIN fileBlocks :
               /\ a <= b
               /\ fileBlocks[a].id = idOf(seq[i])
               /\ fileBlocks[b].id = idOf(seq[j])

\* the file-derived parts of the compiled messages, in order
RECURSIVE FileDerivedParts(_, _)
FileDerivedParts(messages, i) ==
  IF i > Len(messages) THEN <<>>
  ELSE SelectSeq(ContentParts(messages[i]), IsFileDerived)
         \o FileDerivedParts(messages, i + 1)

\* C29: in the user/system path the file blocks are processed in block order and
\* the processing stops at the first block whose native attempt gives a handle:
\* a later file block gives no part and neither converter is called for it, and
\* a source message gives at most one system message.
C29_StopsAtFirstHandle ==
  (/\ Converted
   /\ sdkParam.message.role \in {"user", "system"}
   /\ ~IsThrow(sdkParam.result)) =>
    LET files == sdkParam.message.files
        messages == ResultMessages(sdkParam.result)
        k == IF sdkParam.model # Undefined THEN FirstHandle(files) ELSE 0
    IN /\ InBlockOrder(sdkParam.fileCalls, LAMBDA c : c.block, files)
       /\ InBlockOrder(FileDerivedParts(messages, 1), LAMBDA q : q.blockId, files)
       /\ Len(SelectSeq(messages, LAMBDA m : m.role = "system")) <= 1
       /\ k > 0 =>
            /\ Len(SelectSeq(messages, LAMBDA m : m.role = "system")) = 1
            /\ \A j \in (k + 1)..Len(files) :
                 /\ FilePartsOf(files[j], messages, 1) = <<>>
                 /\ ~Called("convertFileBlockToFilePart", files[j])
                 /\ ~Called("convertFileBlockToTextPart", files[j])
            /\ ~Called("convertFileBlockToTextPart", files[k])
       /\ k = 0 =>
            /\ ~IsArray(sdkParam.result)
            /\ \A j \in DOMAIN files :
                 Called("convertFileBlockToTextPart", files[j])
                   <=> (sdkParam.model = Undefined \/ files[j].native = "none")

\* C29 witness: a user message compiled with a model, whose first file block
\* gets a handle and whose second has a native part and a text of its own
C29_Witness ==
  /\ Converted
  /\ sdkParam.message.role = "user"
  /\ sdkParam.model # Undefined
  /\ Len(sdkParam.message.files) = 2
  /\ FirstHandle(sdkParam.message.files) = 1
  /\ sdkParam.message.files[2].native = "inline"
  /\ sdkParam.message.files[2].text # ""
  /\ IsArray(sdkParam.result)
  /\ Len(sdkParam.fileCalls) = 1

\* the positions of the events of a fetchChatCompletion call that satisfy test
EventsWhere(test(_)) == {i \in DOMAIN fetch.events : test(fetch.events[i])}

IsCreatedChunk(e) == e.kind = "chunk" /\ e.chunk.type = "LLM_RESPONSE_CREATED"

IsErrorChunk(e) == e.kind = "chunk" /\ e.chunk.type = "ERROR"

IsCall(e) == e.kind = "call"

====
